---- MODULE Spec2Model ----
(***************************************************************************)
(* hello-vulkan: the application life cycle (run / init / main_loop /      *)
(* cleanup / main) and the per-frame synchronisation protocol of           *)
(* Application::draw_frame, for three snapshots of the repository:         *)
(*   "window"  src/unnamed/part_004  (GLFW window only, no Application)    *)
(*   "basic"   src/src/main.cpp      (draw_frame, no swapchain recreation) *)
(*   "full"    src/unnamed/part_005  (draw_frame + recreate_swap_chain;    *)
(*             the draw_frame of part_000 and part_002 is the same code)   *)
(* The GPU and the presentation engine are separate processes: a submitted *)
(* batch completes at any later time once its wait semaphore is signalled, *)
(* and a queued present request is executed at any later time once its     *)
(* wait semaphore is signalled.  vkWaitForFences and vkDeviceWaitIdle are  *)
(* called with an infinite timeout and are modelled as blocking.           *)
(***************************************************************************)
EXTENDS Integers, Sequences, FiniteSets, TLC

\* ---------------------------------------------------------------- constants
max_frames_in_flight_ == 2
max_fps == 120
VK_NULL_HANDLE == -1
EXIT_SUCCESS == 0
EXIT_FAILURE == 1

\* ------------------------------------------------------------------- bounds
MaxImages == 3
MaxFrames == 3
MaxRecreate == 2
MaxWork == 10
MaxOversleep == 1
MaxTexSize == 8
MaxMinImages == 8
MaxCursor == 1
MaxMouseEvents == 2
MaxCameraFrames == 3
MaxFaces == 21846
\* physical devices the instance reports, queue families of one device
MaxDevices == 2
MaxFamilies == 2

Snapshots == {"window", "basic", "full"}
Slots == 0 .. (max_frames_in_flight_ - 1)

AcquireResults ==
    {"VK_SUCCESS", "VK_SUBOPTIMAL_KHR", "VK_ERROR_OUT_OF_DATE_KHR", "VK_ERROR"}
SubmitResults == {"VK_SUCCESS", "VK_ERROR"}
PresentResults ==
    {"VK_SUCCESS", "VK_SUBOPTIMAL_KHR", "VK_ERROR_OUT_OF_DATE_KHR", "VK_ERROR"}

VARIABLES
    snap,                          \* which snapshot of the program runs
    pc,                            \* position of the single program thread
    window_should_close,           \* glfwWindowShouldClose(window_)
    fb_zero,                       \* the window's framebuffer has width or height 0
    width_zero,                    \* recreate_swap_chain's locals: width == 0 || height == 0
    framebuffer_resized_,
    num_images,                    \* swap_chain_images_.size()
    command_buffers_,              \* command_buffers_.size()
    uniform_buffers_memory_,       \* uniform_buffers_memory_.size()
    current_frame_,
    in_flight_fences_,             \* slot -> "signaled" | "unsignaled"
    images_in_flight_,             \* image -> fence (slot) or VK_NULL_HANDLE
    image_available_semaphores_,   \* slot -> number of unconsumed signals
    render_finished_semaphores_,   \* slot -> number of unconsumed signals
    image_index,                   \* draw_frame's local
    acquire_result,                \* draw_frame's local
    acquire_sem,                   \* the semaphore passed to this frame's acquire
    img_state,                     \* image -> "free" | "acquired" | "queued"
    pending,                       \* batches submitted and not yet completed
    present_queue,                 \* present requests not yet executed
    last_submit,                   \* the batch this draw_frame gave to vkQueueSubmit
    last_present,                  \* what this draw_frame gave to vkQueuePresentKHR
    presented_slot,                \* the slot of the last frame presented
    frame_count,                   \* draw_frame calls started
    submit_count,                  \* successful vkQueueSubmit calls
    present_count,                 \* vkQueuePresentKHR calls
    vk_failed,                     \* some call returned an error that is not handled by recreation
    thrown,                        \* an exception propagated out of run()
    caught_count,                  \* times main's handler ran
    logged,                        \* log_error calls
    run_returned,                  \* run() returned normally
    violated,                      \* the Expects() that failed, or "none"
    exit_code,                     \* main's return value, -1 while running
    generation,                    \* object -> times it has been created
    destroyed,                     \* object -> times it has been destroyed
    live,                          \* the objects that exist
    step,                          \* calls of init_vulkan or recreate_swap_chain done
    recreate_count,                \* recreate_swap_chain calls started
    clock,                         \* std::chrono::steady_clock::now(), in ms
    time_start,                    \* main_loop's local
    ms_per_frame,                  \* main_loop's local
    draw_done,                     \* when the last draw_frame returned, or -1
    gap,                           \* ms between the last two draw_frame returns, or -1
    tex_width,                     \* create_texture's locals
    tex_height,
    mip_levels,
    layout,                        \* mip level of the texture image -> its layout
    mip_i,                         \* generate_mipmaps' locals i, mip_width, mip_height
    mip_width,
    mip_height,
    last_cmd,                      \* the last command recorded for the texture image
    min_images,                    \* create_swap_chain's locals
    max_images,
    image_count,
    minImageCount,                 \* create_info.minImageCount, or -1
    mouse_grab_,
    mouse_grab_origin_,            \* <<x, y>>
    mouse_grab_transform_,         \* a product of transforms, as a sequence
    camera_transform_,             \* a product of transforms, as a sequence
    cursor,                        \* what the last glfwGetCursorPos gave: <<x, y>>
    last_frame_duration,           \* main_loop's local
    mouse_event,                   \* the last mouse-button event delivered
    camera_frames,                 \* camera updates done by main_loop
    face_index,                    \* load_mesh's locals
    index_offset,
    vertices_size,                 \* vertices.size()
    indices_size,                  \* indices.size()
    face_indices,                  \* the indices stored for the last face
    index_buffer_count,            \* index_buffer_counts_.back(), or -1
    devices,                       \* pick_physical_device's local vector
    physical_device_,
    queue_indices,                 \* the QueueFamilyIndices a caller of find_queue_families holds
    bad_optional_access            \* .value() met an empty optional

vars == <<snap, pc, window_should_close, fb_zero, width_zero,
          framebuffer_resized_, num_images, command_buffers_,
          uniform_buffers_memory_, current_frame_, in_flight_fences_,
          images_in_flight_, image_available_semaphores_,
          render_finished_semaphores_, image_index, acquire_result,
          acquire_sem, img_state, pending, present_queue, last_submit,
          last_present, presented_slot,
          frame_count, submit_count, present_count, vk_failed, thrown,
          caught_count, logged, run_returned, violated, exit_code,
          generation, destroyed, live, step, recreate_count, clock,
          time_start,
          ms_per_frame, draw_done, gap, tex_width, tex_height, mip_levels,
          layout, mip_i, mip_width, mip_height, last_cmd, min_images,
          max_images, image_count, minImageCount, mouse_grab_,
          mouse_grab_origin_, mouse_grab_transform_, camera_transform_,
          cursor, last_frame_duration, mouse_event, camera_frames,
          face_index, index_offset, vertices_size, indices_size,
          face_indices, index_buffer_count, devices, physical_device_,
          queue_indices, bad_optional_access>>

Images == 0 .. (num_images - 1)

\* groups of variables, for UNCHANGED
textureVars == <<tex_width, tex_height, mip_levels, layout, mip_i, mip_width,
                 mip_height, last_cmd>>
swapInfoVars == <<min_images, max_images, image_count, minImageCount>>
\* the locals of the functions that are followed on their own
cameraVars == <<mouse_grab_, mouse_grab_origin_, mouse_grab_transform_,
                camera_transform_, cursor, last_frame_duration, mouse_event,
                camera_frames>>
meshVars == <<face_index, index_offset, vertices_size, indices_size,
              face_indices, index_buffer_count>>
deviceVars == <<devices, physical_device_, queue_indices,
                bad_optional_access>>
localVars == <<swapInfoVars, cameraVars, meshVars, deviceVars>>
clockVars == <<clock, time_start, ms_per_frame, draw_done, gap>>
objectVars == <<generation, destroyed, live, step, recreate_count>>
imageVars == <<num_images, command_buffers_, uniform_buffers_memory_>>
windowVars == <<window_should_close, fb_zero, framebuffer_resized_>>
syncVars == <<in_flight_fences_, images_in_flight_,
              image_available_semaphores_, render_finished_semaphores_>>
frameVars == <<image_index, acquire_result, acquire_sem, last_submit,
              last_present>>
gpuVars == <<img_state, pending, present_queue>>
countVars == <<frame_count, submit_count, present_count, presented_slot>>
exitVars == <<thrown, caught_count, logged, run_returned, violated,
              exit_code>>

\* ------------------------------------------------------------------ objects
\* the objects destroyed by cleanup_swap_chain
SwapChainObjects ==
    {"swap_chain", "image_views", "render_pass", "pipeline",
     "colour_resources", "depth_resources", "framebuffers", "uniform_buffers",
     "descriptor_pool", "descriptor_sets", "command_buffers"}

\* the window and the members of Application that hold Vulkan objects
\* (device stands for device_, graphics_queue_ and present_queue_; mesh for
\* the vertex and index buffers; pipeline for graphics_pipeline_ and
\* pipeline_layout_)
ObjectNames ==
    SwapChainObjects \cup
    {"window", "instance", "debug_messenger", "surface", "physical_device",
     "device", "descriptor_set_layout", "command_pool", "mesh", "textures",
     "image_available_semaphores", "render_finished_semaphores",
     "in_flight_fences"}

\* ------------------------------------------------------------------ helpers
\* a semaphore signal operation; a count above 1 is a signal on a semaphore
\* whose previous signal has not been waited on
SemSignal(v) == IF v < 2 THEN v + 1 ELSE v
SemWait(v) == v - 1

NoSubmit == [seq |-> 0, slot |-> VK_NULL_HANDLE, image |-> VK_NULL_HANDLE,
             count |-> 0,
             wait |-> VK_NULL_HANDLE, acq |-> VK_NULL_HANDLE,
             signal |-> VK_NULL_HANDLE, fence |-> VK_NULL_HANDLE]

NoCmd == [seq |-> 0, kind |-> "none", levels |-> {}, old |-> "none",
          new |-> "none", src |-> VK_NULL_HANDLE, dst |-> VK_NULL_HANDLE]

\* an empty std::optional<uint32_t>
NoFamily == -1

\* QueueFamilyIndices indices = {}
NoIndices == [graphics_family |-> NoFamily, present_family |-> NoFamily]

\* VkPhysicalDevice physical_device_ = VK_NULL_HANDLE
NoDevice == [families |-> <<>>, supported |-> FALSE]

NoPresent == [slot |-> VK_NULL_HANDLE, image |-> VK_NULL_HANDLE,
              sem |-> VK_NULL_HANDLE, acquired |-> FALSE]

\* variant: vkDeviceWaitIdle returns at once
DeviceIdle_nowait == TRUE

\* the device has no queue operation left to execute
DeviceIdle == pending = {} /\ present_queue = <<>>

\* the state of the frame controller of section 4.1
FrameState ==
    CASE pc \in {"df_acquire", "rs_loop", "rs_events", "rs_idle",
                 "df_image_wait"} -> "Acquiring"
      [] pc = "df_present" -> "Submitted"
      [] pc = "df_advance" -> "Presenting"
      [] OTHER -> "Idle"

\* --------------------------------------------------------------------- Init
Init ==
    /\ snap \in Snapshots
    /\ pc = "init_window"
    /\ window_should_close = FALSE
    /\ fb_zero = FALSE
    /\ width_zero = FALSE
    /\ framebuffer_resized_ = FALSE
    /\ num_images = 0
    /\ command_buffers_ = 0
    /\ uniform_buffers_memory_ = 0
    /\ current_frame_ = 0
    /\ in_flight_fences_ = [f \in Slots |-> "none"]
    /\ images_in_flight_ = <<>>
    /\ image_available_semaphores_ = [f \in Slots |-> 0]
    /\ render_finished_semaphores_ = [f \in Slots |-> 0]
    /\ image_index = 0
    /\ acquire_result = "none"
    /\ acquire_sem = VK_NULL_HANDLE
    /\ img_state = <<>>
    /\ pending = {}
    /\ present_queue = <<>>
    /\ last_submit = NoSubmit
    /\ last_present = NoPresent
    /\ presented_slot = VK_NULL_HANDLE
    /\ frame_count = 0
    /\ submit_count = 0
    /\ present_count = 0
    /\ vk_failed = FALSE
    /\ thrown = FALSE
    /\ caught_count = 0
    /\ logged = 0
    /\ run_returned = FALSE
    /\ violated = "none"
    /\ exit_code = -1
    /\ generation = [o \in ObjectNames |-> 0]
    /\ destroyed = [o \in ObjectNames |-> 0]
    /\ min_images = 0
    /\ max_images = 0
    /\ image_count = 0
    /\ minImageCount = -1
    /\ mouse_grab_ = FALSE
    /\ mouse_grab_origin_ = <<0, 0>>
    /\ mouse_grab_transform_ = <<>>
    /\ camera_transform_ = <<>>
    /\ cursor = <<0, 0>>
    /\ last_frame_duration = 0
    /\ mouse_event = [seq |-> 0, button |-> "none", action |-> "none"]
    /\ camera_frames = 0
    /\ face_index = 0
    /\ index_offset = 0
    /\ vertices_size = 0
    /\ indices_size = 0
    /\ face_indices = <<>>
    /\ index_buffer_count = -1
    /\ devices = {}
    /\ physical_device_ = NoDevice
    /\ queue_indices = NoIndices
    /\ bad_optional_access = FALSE
    /\ live = {}
    /\ step = 0
    /\ recreate_count = 0
    /\ clock = 0
    /\ time_start = 0
    /\ ms_per_frame = 0
    /\ draw_done = -1
    /\ gap = -1
    /\ tex_width = 0
    /\ tex_height = 0
    /\ mip_levels = 0
    /\ layout = <<>>
    /\ mip_i = 0
    /\ mip_width = 0
    /\ mip_height = 0
    /\ last_cmd = NoCmd

\* draw_frame returns: its locals go out of scope
LeaveDrawFrame ==
    /\ image_index' = 0
    /\ acquire_result' = "none"
    /\ acquire_sem' = VK_NULL_HANDLE
    /\ last_submit' = NoSubmit
    /\ last_present' = NoPresent

\* throw std::runtime_error(...): the exception unwinds run() and reaches
\* the handler in main
Throw ==
    /\ pc' = "caught"
    /\ thrown' = TRUE
    /\ UNCHANGED <<caught_count, logged, run_returned, violated, exit_code>>

\* the builds of GSL's contract checks: a failed Expects() calls
\* std::terminate, or (GSL_THROW_ON_CONTRACT_VIOLATION) throws gsl::fail_fast
ContractModes == {"terminate", "throw"}

\* the functions with an Expects() that init_vulkan reaches
PreconditionSites ==
    IF snap = "full"
    THEN {"create_swap_chain", "choose_swap_surface_format",
          "choose_swap_present_mode", "transition_image_layout", "load_mesh"}
    ELSE IF snap = "basic" THEN {"choose_swap_surface_format"} ELSE {}

\* those of them that recreate_swap_chain reaches
RecreatePreconditionSites == PreconditionSites \ {"load_mesh"}

\* the functions declared noexcept: an exception leaving one of them calls
\* std::terminate
NoexceptSites ==
    IF snap = "full" THEN {"choose_swap_surface_format"} ELSE {}

\* what a failed Expects() in function site does to the program
ExpectsFailure(site, mode) ==
    IF mode = "throw" /\ site \notin NoexceptSites
    THEN "throw"
    ELSE "terminate"

\* a failed Expects(): the exception unwinds to main, or std::terminate
\* ends the process at once (no handler runs, nothing is logged, main
\* returns no value)
ContractViolation(site, mode) ==
    /\ violated' = site
    /\ IF ExpectsFailure(site, mode) = "throw"
       THEN /\ pc' = "caught"
            /\ thrown' = TRUE
       ELSE /\ pc' = "terminated"
            /\ UNCHANGED thrown
    /\ UNCHANGED <<caught_count, logged, run_returned, exit_code>>

\* ------------------------------------------------------- run(), init_window
init_window ==
    /\ pc = "init_window"
    /\ \E ok \in BOOLEAN :
         IF ok
         THEN /\ pc' = IF snap = "window" THEN "loop" ELSE "init_vulkan"
              /\ UNCHANGED exitVars
         ELSE IF snap = "window"
              THEN \* part_004: logError(...); return EXIT_FAILURE;
                   /\ pc' = "exited"
                   /\ logged' = logged + 1
                   /\ exit_code' = EXIT_FAILURE
                   /\ UNCHANGED <<thrown, caught_count, run_returned,
                                  violated>>
              ELSE Throw
    /\ UNCHANGED <<snap, localVars, objectVars, clockVars, textureVars, windowVars, width_zero, imageVars, current_frame_,
                   syncVars, frameVars, gpuVars, countVars, vk_failed>>

\* create_swap_chain, create_uniform_buffers and create_command_buffers for
\* a surface that gives the swapchain n images: the containers they resize
create_swap_chain(n) ==
    /\ num_images' = n
    /\ img_state' = [i \in 0 .. (n - 1) |-> "free"]
    /\ uniform_buffers_memory_' = n
    /\ command_buffers_' = n

\* create_sync_objects: the state of the synchronisation objects it creates
create_sync_objects(n) ==
    /\ in_flight_fences_' = [f \in Slots |-> "signaled"]
    /\ image_available_semaphores_' = [f \in Slots |-> 0]
    /\ render_finished_semaphores_' = [f \in Slots |-> 0]
    /\ images_in_flight_' = [i \in 0 .. (n - 1) |-> VK_NULL_HANDLE]

\* init_vulkan: every checked create call may fail and throw; the one-time
\* command helpers of the full snapshot discard the results of their calls
init_vulkan ==
    /\ pc = "init_vulkan"
    /\ \E outcome \in {"ok", "create_failed", "helper_call_failed",
                       "precondition_failed"} :
         \/ /\ outcome = "create_failed"
            /\ Throw
            /\ UNCHANGED <<imageVars, syncVars, img_state, vk_failed>>
         \/ /\ outcome = "precondition_failed"
            /\ \E site \in PreconditionSites, mode \in ContractModes :
                 ContractViolation(site, mode)
            /\ UNCHANGED <<imageVars, syncVars, img_state, vk_failed>>
         \/ /\ outcome = "ok" \/ (outcome = "helper_call_failed" /\ snap = "full")
            /\ \E n \in 1 .. MaxImages :
                 /\ create_swap_chain(n)
                 /\ create_sync_objects(n)
            /\ vk_failed' = (vk_failed \/ outcome = "helper_call_failed")
            /\ pc' = "loop"
            /\ UNCHANGED exitVars
    /\ UNCHANGED <<snap, localVars, objectVars, clockVars, textureVars, windowVars, width_zero, current_frame_, frameVars,
                   pending, present_queue, countVars>>

\* ---------------------------------------------------------------- main_loop
\* while (!glfwWindowShouldClose(window_))
main_loop_test ==
    /\ pc = "loop"
    /\ IF window_should_close
       THEN pc' = IF snap = "window" THEN "cleanup" ELSE "ml_idle"
       ELSE /\ frame_count < MaxFrames
            /\ pc' = "poll"
    /\ UNCHANGED <<snap, localVars, objectVars, clockVars, textureVars, windowVars, width_zero, imageVars, current_frame_,
                   syncVars, frameVars, gpuVars, countVars, vk_failed,
                   exitVars>>

\* the callbacks a call of glfwPollEvents or glfwWaitEvents runs: the key
\* callback may set the close flag, the framebuffer-size callback (full
\* snapshot; the other windows are not resizable) sets framebuffer_resized_
DeliverEvents(close, resize, zero) ==
    /\ window_should_close' = (window_should_close \/ close)
    /\ IF snap = "full"
       THEN /\ fb_zero' = zero
            /\ framebuffer_resized_' =
                 (framebuffer_resized_ \/ resize \/ zero # fb_zero)
       ELSE UNCHANGED <<fb_zero, framebuffer_resized_>>

\* glfwPollEvents(); returns at once, with or without events
glfwPollEvents ==
    /\ pc = "poll"
    /\ \E close \in BOOLEAN, resize \in BOOLEAN, zero \in BOOLEAN :
         DeliverEvents(close, resize, zero)
    /\ pc' = IF snap = "window" THEN "loop" ELSE "df_wait"
    /\ UNCHANGED <<snap, localVars, objectVars, clockVars, textureVars, width_zero, imageVars, current_frame_, syncVars,
                   frameVars, gpuVars, countVars, vk_failed, exitVars>>

\* --------------------------------------------------------------- draw_frame
\* variant: draw_frame does not wait on the slot's fence
SlotFenceReady_nowait == TRUE

\* vkWaitForFences(device_, 1, &in_flight_fences_[current_frame_], VK_TRUE,
\* UINT64_MAX) returns
SlotFenceReady == in_flight_fences_[current_frame_] = "signaled"

draw_frame_wait ==
    /\ pc = "df_wait"
    /\ SlotFenceReady
    /\ pc' = "df_acquire"
    /\ frame_count' = frame_count + 1
    /\ UNCHANGED <<snap, localVars, objectVars, clockVars, textureVars, windowVars, width_zero, imageVars, current_frame_,
                   syncVars, frameVars, gpuVars, submit_count, present_count,
                   presented_slot, vk_failed, exitVars>>

\* variant: VK_SUBOPTIMAL_KHR is not treated as stale
IsStale_no_suboptimal(result) ==
    \/ result = "VK_ERROR_OUT_OF_DATE_KHR"
    \/ framebuffer_resized_

\* variant: every acquire result but VK_SUCCESS leads to a recreation
IsStale_any_error(result) ==
    \/ result # "VK_SUCCESS"
    \/ framebuffer_resized_

\* variant: the resize flag is not tested
IsStale_no_flag(result) ==
    \/ result = "VK_ERROR_OUT_OF_DATE_KHR"
    \/ result = "VK_SUBOPTIMAL_KHR"

\* the condition under which draw_frame recreates the swapchain
IsStale(result) ==
    \/ result = "VK_ERROR_OUT_OF_DATE_KHR"
    \/ result = "VK_SUBOPTIMAL_KHR"
    \/ framebuffer_resized_

\* vkAcquireNextImageKHR(..., image_available_semaphores_[current_frame_],
\* VK_NULL_HANDLE, &image_index) and the test of its result.  A successful
\* call hands out an image the presentation engine does not hold and signals
\* the semaphore; a failed call leaves image_index with undefined contents
\* (num_images stands for every value past the end).
draw_frame_acquire ==
    /\ pc = "df_acquire"
    /\ \E result \in AcquireResults, i \in 0 .. num_images :
         /\ IF result \in {"VK_SUCCESS", "VK_SUBOPTIMAL_KHR"}
            THEN /\ i \in Images
                 /\ img_state[i] = "free"
                 /\ img_state' = [img_state EXCEPT ![i] = "acquired"]
                 /\ image_available_semaphores_' =
                      [image_available_semaphores_ EXCEPT
                         ![current_frame_] = SemSignal(@)]
            ELSE UNCHANGED <<img_state, image_available_semaphores_>>
         /\ image_index' = i
         /\ acquire_result' = result
         /\ acquire_sem' = current_frame_
         /\ UNCHANGED <<last_submit, last_present>>
         /\ IF snap = "full"
            THEN IF IsStale(result)
                 THEN /\ framebuffer_resized_' = FALSE
                      \* recreate_swap_chain: glfwGetFramebufferSize
                      /\ width_zero' = fb_zero
                      /\ pc' = "rs_loop"
                      /\ UNCHANGED <<vk_failed, exitVars>>
                 ELSE IF result # "VK_SUCCESS"
                      THEN /\ Throw
                           /\ vk_failed' = TRUE
                           /\ UNCHANGED <<framebuffer_resized_, width_zero>>
                      ELSE /\ pc' = "df_image_wait"
                           /\ UNCHANGED <<framebuffer_resized_, width_zero,
                                          vk_failed, exitVars>>
            ELSE \* src/src/main.cpp discards the result
                 /\ pc' = "df_image_wait"
                 /\ vk_failed' =
                      (vk_failed \/
                       result \in {"VK_ERROR_OUT_OF_DATE_KHR", "VK_ERROR"})
                 /\ UNCHANGED <<framebuffer_resized_, width_zero, exitVars>>
    /\ UNCHANGED <<snap, localVars, objectVars, clockVars, textureVars, window_should_close, fb_zero, imageVars,
                   current_frame_, in_flight_fences_, images_in_flight_,
                   render_finished_semaphores_, pending, present_queue,
                   countVars>>

\* variant: draw_frame does not wait on the fence bound to the image
ImageFenceReady_nowait(i) == TRUE

\* if (images_in_flight_[image_index] != VK_NULL_HANDLE) vkWaitForFences(...)
\* returns
ImageFenceReady(i) ==
    IF images_in_flight_[i] = VK_NULL_HANDLE
    THEN TRUE
    ELSE in_flight_fences_[images_in_flight_[i]] = "signaled"

\* variant: the fence is not reset before it is handed to vkQueueSubmit
ResetFences_omitted(f) == in_flight_fences_

\* vkResetFences(device_, 1, &in_flight_fences_[f])
ResetFences(f) == [in_flight_fences_ EXCEPT ![f] = "unsignaled"]

\* VkSubmitInfo.commandBufferCount: std::size(command_buffers_) in
\* src/src/main.cpp, 1 in the later snapshots
commandBufferCount ==
    IF snap = "basic" THEN command_buffers_ ELSE 1

\* the elements of command_buffers_ a batch makes the queue read:
\* commandBufferCount handles starting at pCommandBuffers
CommandBuffersRead(s) == s.image .. (s.image + s.count - 1)

\* variant: the batch waits on the other slot's image-available semaphore
SubmitInfo_other_slot(cf, i) ==
    [seq |-> submit_count + 1, slot |-> cf, image |-> i,
     count |-> commandBufferCount,
     wait |-> (cf + 1) % max_frames_in_flight_, acq |-> acquire_sem,
     signal |-> cf, fence |-> cf]

\* the batch handed to vkQueueSubmit: its wait semaphore, its signal
\* semaphore, its fence and the command buffer (image) it executes
SubmitInfo(cf, i) ==
    [seq |-> submit_count + 1, slot |-> cf, image |-> i,
     count |-> commandBufferCount,
     wait |-> cf, acq |-> acquire_sem, signal |-> cf, fence |-> cf]

\* the unfinished batches whose command buffer reads uniform buffer i: the
\* command buffer of image i binds descriptor set i, which names
\* uniform_buffers_[i]
UniformReaders(i) == {s \in pending : s.image = i}

\* variant: the uniform buffers are indexed by frame slot
UniformWritten_by_slot(cf, i) == cf

\* the uniform buffer draw_frame writes: update_uniform_buffer(image_index)
UniformWritten(cf, i) == i

\* the wait on the image's fence, the binding of the slot's fence to the
\* image, update_uniform_buffer(image_index), vkResetFences and
\* vkQueueSubmit
draw_frame_submit ==
    /\ pc = "df_image_wait"
    /\ \E access \in {"faults", "goes_on"} :
         IF /\ image_index \notin DOMAIN images_in_flight_
            /\ snap = "full"
            /\ access = "faults"
         THEN \* images_in_flight_[image_index] past the end: in this
              \* outcome the access faults and the process dies
              /\ pc' = "terminated"
              /\ UNCHANGED <<in_flight_fences_, images_in_flight_, pending,
                             submit_count, last_submit, vk_failed, exitVars>>
         ELSE IF image_index \notin DOMAIN images_in_flight_ /\ snap = "basic"
         THEN \* images_in_flight_.at(image_index) throws std::out_of_range
              /\ access = "goes_on"
              /\ Throw
              /\ UNCHANGED <<in_flight_fences_, images_in_flight_, pending,
                             submit_count, last_submit, vk_failed>>
         ELSE /\ access = "goes_on"
              /\ IF image_index \in DOMAIN images_in_flight_
                 THEN /\ ImageFenceReady(image_index)
                      /\ images_in_flight_' =
                           [images_in_flight_ EXCEPT
                              ![image_index] = current_frame_]
                 ELSE \* images_in_flight_[image_index] past the end: the
                      \* read and the write touch memory outside the
                      \* vector; in this outcome the frame goes on
                      UNCHANGED images_in_flight_
              /\ in_flight_fences_' = ResetFences(current_frame_)
              /\ \E result \in SubmitResults :
                   IF result = "VK_SUCCESS"
                   THEN /\ pending' =
                             pending \cup
                               {SubmitInfo(current_frame_, image_index)}
                        /\ last_submit' =
                             SubmitInfo(current_frame_, image_index)
                        /\ submit_count' = submit_count + 1
                        /\ pc' = "df_present"
                        /\ UNCHANGED <<vk_failed, exitVars>>
                   ELSE /\ Throw
                        /\ vk_failed' = TRUE
                        /\ UNCHANGED <<pending, submit_count, last_submit>>
    /\ UNCHANGED <<snap, localVars, objectVars, clockVars, textureVars, windowVars, width_zero, imageVars, current_frame_,
                   image_available_semaphores_, render_finished_semaphores_,
                   image_index, acquire_result, acquire_sem, last_present,
                   img_state, present_queue, frame_count, present_count,
                   presented_slot>>

\* the VkPresentInfoKHR handed to vkQueuePresentKHR
PresentInfo(cf, i) == [slot |-> cf, image |-> i, sem |-> cf]

\* vkQueuePresentKHR(present_queue_, &present_info); the result is
\* discarded.  The request is enqueued unless the call fails to enqueue it
\* (VK_ERROR: out of memory, device lost).
draw_frame_present ==
    /\ pc = "df_present"
    /\ \E result \in PresentResults :
         /\ IF result # "VK_ERROR"
            THEN /\ present_queue' =
                      Append(present_queue,
                             PresentInfo(current_frame_, image_index))
                 /\ img_state' = [img_state EXCEPT ![image_index] = "queued"]
            ELSE UNCHANGED <<present_queue, img_state>>
         /\ vk_failed' =
              (vk_failed \/ result \in {"VK_ERROR_OUT_OF_DATE_KHR", "VK_ERROR"})
    /\ last_present' =
         [slot |-> PresentInfo(current_frame_, image_index).slot,
          image |-> PresentInfo(current_frame_, image_index).image,
          sem |-> PresentInfo(current_frame_, image_index).sem,
          acquired |-> img_state[image_index] = "acquired"]
    /\ presented_slot' = PresentInfo(current_frame_, image_index).slot
    /\ present_count' = present_count + 1
    /\ pc' = "df_advance"
    /\ UNCHANGED <<snap, localVars, objectVars, clockVars, textureVars, windowVars, width_zero, imageVars, current_frame_,
                   syncVars, image_index, acquire_result, acquire_sem,
                   last_submit, pending, frame_count, submit_count,
                   exitVars>>

\* variant: the slot index is not advanced
NextFrame_stuck(cf) == cf

\* (current_frame_ + 1) % max_frames_in_flight_
NextFrame(cf) == (cf + 1) % max_frames_in_flight_

draw_frame_advance ==
    /\ pc = "df_advance"
    /\ current_frame_' = NextFrame(current_frame_)
    /\ pc' = "loop"
    /\ LeaveDrawFrame
    /\ UNCHANGED <<snap, localVars, objectVars, clockVars, textureVars, windowVars, width_zero, imageVars, syncVars,
                   gpuVars, countVars, vk_failed, exitVars>>

\* ------------------------------------------------------ recreate_swap_chain
\* while (width == 0 || height == 0) { glfwGetFramebufferSize(...);
recreate_swap_chain_loop ==
    /\ pc = "rs_loop"
    /\ IF width_zero
       THEN /\ width_zero' = fb_zero
            /\ pc' = "rs_events"
       ELSE /\ pc' = "rs_idle"
            /\ UNCHANGED width_zero
    /\ UNCHANGED <<snap, localVars, objectVars, clockVars, textureVars, windowVars, imageVars, current_frame_, syncVars,
                   frameVars, gpuVars, countVars, vk_failed, exitVars>>

\* glfwWaitEvents(); } : blocks until at least one event is delivered
recreate_swap_chain_events ==
    /\ pc = "rs_events"
    /\ \E close \in BOOLEAN, resize \in BOOLEAN, zero \in BOOLEAN :
         DeliverEvents(close, resize, zero)
    /\ pc' = "rs_loop"
    /\ UNCHANGED <<snap, localVars, objectVars, clockVars, textureVars, width_zero, imageVars, current_frame_, syncVars,
                   frameVars, gpuVars, countVars, vk_failed, exitVars>>

\* variant: recreate_swap_chain keeps the image-available semaphores
ReplaceSemaphores_kept == image_available_semaphores_

\* for (auto &semaphore : image_available_semaphores_) { vkDestroySemaphore;
\* vkCreateSemaphore }: every image-available semaphore is a fresh one
ReplaceSemaphores == [f \in Slots |-> 0]

\* vkDeviceWaitIdle, the replacement of the image-available semaphores,
\* cleanup_swap_chain and the re-creation of the swapchain and of what
\* depends on it; a failed create call throws
\* counts: the numbers of images the surface may give the new swapchain
Rebuild(counts) ==
    /\ pc = "rs_idle"
    /\ DeviceIdle
    /\ image_available_semaphores_' = ReplaceSemaphores
    /\ \E outcome \in {"ok", "create_failed", "precondition_failed"} :
         \/ /\ outcome = "ok"
            /\ \E n \in counts : create_swap_chain(n)
            /\ pc' = "loop"
            /\ LeaveDrawFrame
            /\ UNCHANGED <<vk_failed, exitVars>>
         \/ /\ outcome = "create_failed"
            /\ Throw
            /\ vk_failed' = TRUE
            /\ UNCHANGED <<imageVars, img_state, frameVars>>
         \/ /\ outcome = "precondition_failed"
            /\ \E site \in RecreatePreconditionSites, mode \in ContractModes :
                 ContractViolation(site, mode)
            /\ UNCHANGED <<vk_failed, imageVars, img_state, frameVars>>
    /\ UNCHANGED <<snap, localVars, objectVars, clockVars, textureVars, windowVars, width_zero, current_frame_,
                   in_flight_fences_, images_in_flight_,
                   render_finished_semaphores_, pending, present_queue,
                   countVars>>

\* recreate_swap_chain on a surface whose image count has not changed
recreate_swap_chain_rebuild == Rebuild({num_images})

\* recreate_swap_chain on a surface whose capabilities (minImageCount,
\* maxImageCount) may have changed since the swapchain was created
recreate_swap_chain_resized == Rebuild(1 .. MaxImages)

\* ------------------------------------------- GPU and presentation engine
\* a submitted batch completes: its semaphore wait has consumed the signal
\* of its wait semaphore, and its signal semaphore and fence are signalled
GpuComplete ==
    /\ pc \notin {"caught", "cleanup", "run_done", "exited", "terminated"}
    /\ \E s \in pending :
         /\ image_available_semaphores_[s.wait] >= 1
         /\ image_available_semaphores_' =
              [image_available_semaphores_ EXCEPT ![s.wait] = SemWait(@)]
         /\ render_finished_semaphores_' =
              [render_finished_semaphores_ EXCEPT ![s.signal] = SemSignal(@)]
         /\ in_flight_fences_' = [in_flight_fences_ EXCEPT ![s.fence] = "signaled"]
         /\ pending' = pending \ {s}
    /\ UNCHANGED <<snap, localVars, objectVars, clockVars, textureVars, pc, windowVars, width_zero, imageVars,
                   current_frame_, images_in_flight_, frameVars, img_state,
                   present_queue, countVars, vk_failed, exitVars>>

\* the oldest present request executes: its semaphore wait consumes the
\* signal, the image is shown and becomes available to acquire again
PresentEngine ==
    /\ pc \notin {"caught", "cleanup", "run_done", "exited", "terminated"}
    /\ present_queue # <<>>
    /\ LET r == Head(present_queue) IN
         /\ render_finished_semaphores_[r.sem] >= 1
         /\ render_finished_semaphores_' =
              [render_finished_semaphores_ EXCEPT ![r.sem] = SemWait(@)]
         /\ img_state' = [img_state EXCEPT ![r.image] = "free"]
    /\ present_queue' = Tail(present_queue)
    /\ UNCHANGED <<snap, localVars, objectVars, clockVars, textureVars, pc, windowVars, width_zero, imageVars,
                   current_frame_, in_flight_fences_, images_in_flight_,
                   image_available_semaphores_, frameVars, pending, countVars,
                   vk_failed, exitVars>>

\* ------------------------------------------------- end of main_loop, main
\* vkDeviceWaitIdle(device_) after the loop
main_loop_wait_idle ==
    /\ pc = "ml_idle"
    /\ DeviceIdle
    /\ pc' = "cleanup"
    /\ UNCHANGED <<snap, localVars, objectVars, clockVars, textureVars, windowVars, width_zero, imageVars, current_frame_,
                   syncVars, frameVars, gpuVars, countVars, vk_failed,
                   exitVars>>

\* cleanup(); run() returns
cleanup ==
    /\ pc = "cleanup"
    /\ pc' = "run_done"
    /\ run_returned' = TRUE
    /\ UNCHANGED <<snap, localVars, objectVars, clockVars, textureVars, windowVars, width_zero, imageVars, current_frame_,
                   syncVars, frameVars, gpuVars, countVars, vk_failed,
                   thrown, caught_count, logged, violated, exit_code>>

\* main: return EXIT_SUCCESS;
main_return ==
    /\ pc = "run_done"
    /\ pc' = "exited"
    /\ exit_code' = EXIT_SUCCESS
    /\ UNCHANGED <<snap, localVars, objectVars, clockVars, textureVars, windowVars, width_zero, imageVars, current_frame_,
                   syncVars, frameVars, gpuVars, countVars, vk_failed,
                   thrown, caught_count, logged, run_returned, violated>>

\* variant: the handler reports success
MainCatchReturn_success == EXIT_SUCCESS

\* the value main's handler returns
MainCatchReturn == EXIT_FAILURE

\* main: catch (const std::exception &e) { log_error(e.what());
\*                                          return EXIT_FAILURE; }
main_catch ==
    /\ pc = "caught"
    /\ caught_count' = caught_count + 1
    /\ logged' = logged + 1
    /\ exit_code' = MainCatchReturn
    /\ pc' = "exited"
    /\ UNCHANGED <<snap, localVars, objectVars, clockVars, textureVars, windowVars, width_zero, imageVars, current_frame_,
                   syncVars, frameVars, gpuVars, countVars, vk_failed,
                   thrown, run_returned, violated>>

Next ==
    \/ init_window
    \/ init_vulkan
    \/ main_loop_test
    \/ glfwPollEvents
    \/ draw_frame_wait
    \/ draw_frame_acquire
    \/ draw_frame_submit
    \/ draw_frame_present
    \/ draw_frame_advance
    \/ recreate_swap_chain_loop
    \/ recreate_swap_chain_events
    \/ recreate_swap_chain_rebuild
    \/ GpuComplete
    \/ PresentEngine
    \/ main_loop_wait_idle
    \/ cleanup
    \/ main_return
    \/ main_catch

Spec == Init /\ [][Next]_vars

\* the snapshot with recreate_swap_chain, on a surface whose image count may
\* change between two swapchains
InitResized == Init /\ snap = "full"

NextResized ==
    \/ init_window
    \/ init_vulkan
    \/ main_loop_test
    \/ glfwPollEvents
    \/ draw_frame_wait
    \/ draw_frame_acquire
    \/ draw_frame_submit
    \/ draw_frame_present
    \/ draw_frame_advance
    \/ recreate_swap_chain_loop
    \/ recreate_swap_chain_events
    \/ recreate_swap_chain_resized
    \/ GpuComplete
    \/ PresentEngine
    \/ main_loop_wait_idle
    \/ cleanup
    \/ main_return
    \/ main_catch

SpecResized == InitResized /\ [][NextResized]_vars

\* the snapshot with recreate_swap_chain under fair scheduling: the program
\* thread takes a step whenever it can (glfwWaitEvents returns whenever the
\* window system has an event for it), the GPU completes every batch whose
\* wait semaphore is signalled and the presentation engine executes every
\* present request
InitLive == Init /\ snap = "full"

ProgramStep ==
    \/ init_window
    \/ init_vulkan
    \/ main_loop_test
    \/ glfwPollEvents
    \/ draw_frame_wait
    \/ draw_frame_acquire
    \/ draw_frame_submit
    \/ draw_frame_present
    \/ draw_frame_advance
    \/ recreate_swap_chain_loop
    \/ recreate_swap_chain_events
    \/ recreate_swap_chain_rebuild
    \/ main_loop_wait_idle
    \/ cleanup
    \/ main_return
    \/ main_catch

NextLive == ProgramStep \/ GpuComplete \/ PresentEngine

SpecLive ==
    /\ InitLive
    /\ [][NextLive]_vars
    /\ WF_vars(ProgramStep)
    /\ WF_vars(GpuComplete)
    /\ WF_vars(PresentEngine)

\* =========================================================== object life cycle
\* Spec follows the frame protocol and leaves the table of objects aside;
\* SpecObjects follows run() call by call through init_vulkan,
\* recreate_swap_chain and cleanup and leaves the frame protocol aside.
frameProtocolVars == <<windowVars, width_zero, imageVars, current_frame_,
                       syncVars, frameVars, gpuVars, countVars, vk_failed,
                       clockVars, textureVars>>
protocolVars == <<frameProtocolVars, localVars>>

\* variant: the command pool is created where the snapshot without depth
\* buffer creates it, after the framebuffers
InitVulkanCalls_pool_late(s) ==
    IF s = "full"
    THEN <<"create_instance", "setup_debug_messenger", "create_surface",
           "pick_physical_device", "create_logical_device",
           "create_swap_chain", "create_image_views", "create_render_pass",
           "create_descriptor_set_layout", "create_graphics_pipeline",
           "create_colour_resources", "create_depth_resources",
           "create_framebuffers", "create_command_pool", "create_mesh",
           "create_uniform_buffers", "create_descriptor_pool",
           "create_descriptor_sets", "create_command_buffers",
           "create_sync_objects">>
    ELSE <<"create_instance", "setup_debug_messenger", "create_surface",
           "pick_physical_device", "create_logical_device",
           "create_swap_chain", "create_image_views", "create_render_pass",
           "create_graphics_pipeline", "create_framebuffers",
           "create_command_pool", "create_command_buffers",
           "create_sync_objects">>

\* the calls of init_vulkan, in order
InitVulkanCalls(s) ==
    IF s = "full"
    THEN <<"create_instance", "setup_debug_messenger", "create_surface",
           "pick_physical_device", "create_logical_device",
           "create_swap_chain", "create_image_views", "create_render_pass",
           "create_descriptor_set_layout", "create_graphics_pipeline",
           "create_command_pool", "create_colour_resources",
           "create_depth_resources", "create_framebuffers", "create_mesh",
           "create_uniform_buffers", "create_descriptor_pool",
           "create_descriptor_sets", "create_command_buffers",
           "create_sync_objects">>
    ELSE <<"create_instance", "setup_debug_messenger", "create_surface",
           "pick_physical_device", "create_logical_device",
           "create_swap_chain", "create_image_views", "create_render_pass",
           "create_graphics_pipeline", "create_framebuffers",
           "create_command_pool", "create_command_buffers",
           "create_sync_objects">>

\* variant: the semaphores are left alone and the descriptor-set layout is
\* re-created with the pipeline
RecreateCalls_layout ==
    <<"cleanup_swap_chain", "create_swap_chain", "create_image_views",
      "create_render_pass", "create_descriptor_set_layout",
      "create_graphics_pipeline", "create_colour_resources",
      "create_depth_resources", "create_framebuffers",
      "create_uniform_buffers", "create_descriptor_pool",
      "create_descriptor_sets", "create_command_buffers">>

\* the steps of recreate_swap_chain after vkDeviceWaitIdle, in order
RecreateCalls ==
    <<"recreate_semaphores", "cleanup_swap_chain", "create_swap_chain",
      "create_image_views", "create_render_pass", "create_graphics_pipeline",
      "create_colour_resources", "create_depth_resources",
      "create_framebuffers", "create_uniform_buffers",
      "create_descriptor_pool", "create_descriptor_sets",
      "create_command_buffers">>

\* the objects a call creates
Creates(f) ==
    CASE f = "create_instance" -> {"instance"}
      [] f = "setup_debug_messenger" ->
           \* empty in src/src/main.cpp; the later snapshots create the
           \* messenger when enable_validation_layers_ (a Debug build)
           IF snap = "full" THEN {"debug_messenger"} ELSE {}
      [] f = "create_surface" -> {"surface"}
      [] f = "pick_physical_device" -> {"physical_device"}
      [] f = "create_logical_device" -> {"device"}
      [] f = "create_swap_chain" -> {"swap_chain"}
      [] f = "create_image_views" -> {"image_views"}
      [] f = "create_render_pass" -> {"render_pass"}
      [] f = "create_descriptor_set_layout" -> {"descriptor_set_layout"}
      [] f = "create_graphics_pipeline" -> {"pipeline"}
      [] f = "create_command_pool" -> {"command_pool"}
      [] f = "create_colour_resources" -> {"colour_resources"}
      [] f = "create_depth_resources" -> {"depth_resources"}
      [] f = "create_framebuffers" -> {"framebuffers"}
      [] f = "create_mesh" -> {"mesh", "textures"}
      [] f = "create_uniform_buffers" -> {"uniform_buffers"}
      [] f = "create_descriptor_pool" -> {"descriptor_pool"}
      [] f = "create_descriptor_sets" -> {"descriptor_sets"}
      [] f = "create_command_buffers" -> {"command_buffers"}
      [] f = "create_sync_objects" ->
           {"image_available_semaphores", "render_finished_semaphores",
            "in_flight_fences"}
      [] f = "recreate_semaphores" -> {"image_available_semaphores"}
      [] OTHER -> {}

\* variant: cleanup destroys the device before the command pool
CleanupCalls_device_early(s) ==
    IF s = "full"
    THEN <<"cleanup_swap_chain", "destroy_textures",
           "vkDestroyDescriptorSetLayout", "destroy_mesh",
           "destroy_render_finished_semaphores",
           "destroy_image_available_semaphores", "destroy_in_flight_fences",
           "vkDestroyDevice", "vkDestroyCommandPool", "vkDestroySurfaceKHR",
           "DestroyDebugUtilsMessengerEXT", "vkDestroyInstance",
           "glfwDestroyWindow">>
    ELSE <<"destroy_sync_objects", "vkDestroyDevice", "vkDestroyCommandPool",
           "destroy_framebuffers", "vkDestroyPipeline", "vkDestroyRenderPass",
           "destroy_image_views", "vkDestroySwapchainKHR",
           "vkDestroySurfaceKHR", "vkDestroyInstance", "glfwDestroyWindow">>

\* the steps of cleanup, in order
CleanupCalls(s) ==
    IF s = "full"
    THEN <<"cleanup_swap_chain", "destroy_textures",
           "vkDestroyDescriptorSetLayout", "destroy_mesh",
           "destroy_render_finished_semaphores",
           "destroy_image_available_semaphores", "destroy_in_flight_fences",
           "vkDestroyCommandPool", "vkDestroyDevice", "vkDestroySurfaceKHR",
           "DestroyDebugUtilsMessengerEXT", "vkDestroyInstance",
           "glfwDestroyWindow">>
    ELSE <<"destroy_sync_objects", "vkDestroyCommandPool",
           "destroy_framebuffers", "vkDestroyPipeline", "vkDestroyRenderPass",
           "destroy_image_views", "vkDestroySwapchainKHR", "vkDestroyDevice",
           "vkDestroySurfaceKHR", "vkDestroyInstance", "glfwDestroyWindow">>

\* the objects a call destroys
Destroys(f) ==
    CASE f = "cleanup_swap_chain" -> SwapChainObjects
      [] f = "recreate_semaphores" -> {"image_available_semaphores"}
      [] f = "destroy_textures" -> {"textures"}
      [] f = "vkDestroyDescriptorSetLayout" -> {"descriptor_set_layout"}
      [] f = "destroy_mesh" -> {"mesh"}
      [] f = "destroy_render_finished_semaphores" ->
           {"render_finished_semaphores"}
      [] f = "destroy_image_available_semaphores" ->
           {"image_available_semaphores"}
      [] f = "destroy_in_flight_fences" -> {"in_flight_fences"}
      [] f = "destroy_sync_objects" ->
           {"render_finished_semaphores", "image_available_semaphores",
            "in_flight_fences"}
      [] f = "vkDestroyCommandPool" ->
           \* the command buffers still allocated from the pool are freed
           \* with it (src/src/main.cpp never frees them itself)
           {"command_pool"} \cup (live \cap {"command_buffers"})
      [] f = "destroy_framebuffers" -> {"framebuffers"}
      [] f = "vkDestroyPipeline" -> {"pipeline"}
      [] f = "vkDestroyRenderPass" -> {"render_pass"}
      [] f = "destroy_image_views" -> {"image_views"}
      [] f = "vkDestroySwapchainKHR" -> {"swap_chain"}
      [] f = "vkDestroyDevice" -> {"device"}
      [] f = "vkDestroySurfaceKHR" -> {"surface"}
      [] f = "DestroyDebugUtilsMessengerEXT" -> {"debug_messenger"}
      [] f = "vkDestroyInstance" ->
           \* the physical device handle belongs to the instance
           {"instance", "physical_device"}
      [] f = "glfwDestroyWindow" -> {"window"}
      [] OTHER -> {}

\* the calls that cannot throw
NoThrowCalls == {"cleanup_swap_chain"}

\* call f returns normally
Call(f) ==
    /\ live' = (live \ Destroys(f)) \cup Creates(f)
    /\ generation' =
         [o \in ObjectNames |->
            IF o \in Creates(f) THEN generation[o] + 1 ELSE generation[o]]
    /\ destroyed' =
         [o \in ObjectNames |->
            IF o \in Destroys(f) THEN destroyed[o] + 1 ELSE destroyed[o]]

\* the next call of the sequence calls returns or throws; after the last
\* one control goes to next_pc
RunCalls(calls, next_pc) ==
    IF step < Len(calls)
    THEN \E ok \in BOOLEAN :
           IF ok \/ calls[step + 1] \in NoThrowCalls
           THEN /\ ok
                /\ Call(calls[step + 1])
                /\ step' = step + 1
                /\ UNCHANGED <<pc, exitVars>>
           ELSE /\ Throw
                /\ UNCHANGED <<generation, destroyed, live, step>>
    ELSE /\ pc' = next_pc
         /\ step' = 0
         /\ UNCHANGED <<generation, destroyed, live, exitVars>>

run_init_window ==
    /\ pc = "init_window"
    /\ \E ok \in BOOLEAN :
         IF ok
         THEN /\ live' = live \cup {"window"}
              /\ generation' = [generation EXCEPT !["window"] = @ + 1]
              /\ pc' = "init_vulkan"
              /\ UNCHANGED exitVars
         ELSE /\ Throw
              /\ UNCHANGED <<generation, live>>
    /\ UNCHANGED <<snap, destroyed, step, recreate_count, protocolVars>>

run_init_vulkan ==
    /\ pc = "init_vulkan"
    /\ RunCalls(InitVulkanCalls(snap), "loop")
    /\ UNCHANGED <<snap, recreate_count, protocolVars>>

\* main_loop: the window is closed, or draw_frame throws, or draw_frame
\* calls recreate_swap_chain (a draw_frame that does neither changes no
\* object)
run_main_loop ==
    /\ pc = "loop"
    /\ \E event \in {"close", "throw", "recreate"} :
         \/ /\ event = "close"
            /\ pc' = "cleanup"
            /\ UNCHANGED <<recreate_count, exitVars>>
         \/ /\ event = "throw"
            /\ Throw
            /\ UNCHANGED recreate_count
         \/ /\ event = "recreate"
            /\ snap = "full"
            /\ recreate_count < MaxRecreate
            /\ recreate_count' = recreate_count + 1
            /\ pc' = "rs_idle"
            /\ UNCHANGED exitVars
    /\ UNCHANGED <<snap, generation, destroyed, live, step, protocolVars>>

run_recreate_swap_chain ==
    /\ pc = "rs_idle"
    /\ RunCalls(RecreateCalls, "loop")
    /\ UNCHANGED <<snap, recreate_count, protocolVars>>

\* cleanup() (noexcept) destroys the objects call by call; after the last
\* call (glfwTerminate) run() returns
run_cleanup ==
    /\ pc = "cleanup"
    /\ IF step < Len(CleanupCalls(snap))
       THEN /\ Call(CleanupCalls(snap)[step + 1])
            /\ step' = step + 1
            /\ UNCHANGED <<pc, run_returned>>
       ELSE /\ pc' = "run_done"
            /\ step' = 0
            /\ run_returned' = TRUE
            /\ UNCHANGED <<generation, destroyed, live>>
    /\ UNCHANGED <<snap, recreate_count, protocolVars, thrown, caught_count,
                   logged, violated, exit_code>>

InitObjects == Init /\ snap \in {"basic", "full"}

NextObjects ==
    \/ run_init_window
    \/ run_init_vulkan
    \/ run_main_loop
    \/ run_recreate_swap_chain
    \/ run_cleanup
    \/ main_return
    \/ main_catch

SpecObjects == InitObjects /\ [][NextObjects]_vars

\* ================================================================ frame cap
\* SpecCapped follows the clock through main_loop of the snapshot with the
\* frame cap: an iteration (glfwPollEvents, the camera update, draw_frame)
\* takes a whole number of milliseconds, and so does a sleep.

\* (int)std::ceil(1000.0f / max_fps)
min_ms_per_frame == (1000 + max_fps - 1) \div max_fps

\* one iteration of the loop up to the test of ms_per_frame: the work takes
\* work ms, then time_end = now(), ms_per_frame = time_end - time_start and
\* time_start = time_end
main_loop_frame ==
    /\ pc = "loop"
    /\ frame_count < MaxFrames
    /\ \E work \in 0 .. MaxWork :
         /\ clock' = clock + work
         /\ draw_done' = clock + work
         /\ gap' = IF draw_done = -1 THEN -1 ELSE clock + work - draw_done
         /\ ms_per_frame' = clock + work - time_start
         /\ time_start' = clock + work
         /\ pc' = IF clock + work - time_start < min_ms_per_frame
                  THEN "sleep"
                  ELSE "loop"
    /\ frame_count' = frame_count + 1
    /\ UNCHANGED <<snap, localVars, objectVars, textureVars, windowVars, width_zero, imageVars,
                   current_frame_, syncVars, frameVars, gpuVars, submit_count,
                   present_count, presented_slot, vk_failed, exitVars>>

\* std::this_thread::sleep_for(min_ms_per_frame - ms_per_frame): blocks for
\* at least that long
main_loop_sleep ==
    /\ pc = "sleep"
    /\ \E over \in 0 .. MaxOversleep :
         clock' = clock + (min_ms_per_frame - ms_per_frame) + over
    /\ pc' = "loop"
    /\ UNCHANGED <<snap, localVars, objectVars, textureVars, windowVars, width_zero, imageVars,
                   current_frame_, syncVars, frameVars, gpuVars, countVars,
                   vk_failed, exitVars, time_start, ms_per_frame, draw_done,
                   gap>>

InitCapped == Init /\ snap = "full"

NextCapped ==
    \/ init_window
    \/ init_vulkan
    \/ main_loop_frame
    \/ main_loop_sleep
    \/ main_catch

SpecCapped == InitCapped /\ [][NextCapped]_vars

\* ================================================================== texture
\* SpecTexture follows create_texture (called by create_mesh in
\* init_vulkan) command by command: the layout of every mip level of the
\* texture image, the barriers, the copy and the blits recorded for it.

\* std::floor(std::log2(n)) for n >= 1
RECURSIVE Log2Floor(_)
Log2Floor(n) == IF n <= 1 THEN 0 ELSE 1 + Log2Floor(n \div 2)

Max(a, b) == IF a >= b THEN a ELSE b

\* vkCmdPipelineBarrier with one image barrier over the mip levels levels:
\* afterwards they are in layout new
ImageBarrier(levels, old, new) ==
    /\ layout' = [l \in DOMAIN layout |->
                    IF l \in levels THEN new ELSE layout[l]]
    /\ last_cmd' = [seq |-> last_cmd.seq + 1, kind |-> "barrier",
                    levels |-> levels, old |-> old, new |-> new,
                    src |-> VK_NULL_HANDLE, dst |-> VK_NULL_HANDLE]

\* a transfer command that reads level src (or the staging buffer,
\* VK_NULL_HANDLE) and writes level dst
Transfer(kind, src, dst) ==
    /\ last_cmd' = [seq |-> last_cmd.seq + 1, kind |-> kind, levels |-> {},
                    old |-> "none", new |-> "none", src |-> src, dst |-> dst]
    /\ UNCHANGED layout

\* variant: the barrier before the blit names the level the blit writes
BlitBarrierLevel_dst(i) == i

\* blit_barrier.subresourceRange.baseMipLevel
BlitBarrierLevel(i) == i - 1

\* stbi_load, the test of its result, mip_levels and create_image
create_texture ==
    /\ pc = "init_vulkan"
    /\ \E w \in 0 .. MaxTexSize, h \in 0 .. MaxTexSize :
         IF w = 0 \/ h = 0
         THEN /\ Throw
              /\ UNCHANGED textureVars
         ELSE /\ tex_width' = w
              /\ tex_height' = h
              /\ mip_levels' = Log2Floor(Max(w, h)) + 1
              /\ layout' = [l \in 0 .. Log2Floor(Max(w, h)) |->
                              "VK_IMAGE_LAYOUT_UNDEFINED"]
              /\ pc' = "ct_transition"
              /\ UNCHANGED <<mip_i, mip_width, mip_height, last_cmd, exitVars>>
    /\ UNCHANGED <<snap, localVars, objectVars, clockVars, windowVars, width_zero,
                   imageVars, current_frame_, syncVars, frameVars, gpuVars,
                   countVars, vk_failed>>

\* transition_image_layout(..., VK_IMAGE_LAYOUT_UNDEFINED,
\* VK_IMAGE_LAYOUT_TRANSFER_DST_OPTIMAL, mip_levels)
transition_image_layout ==
    /\ pc = "ct_transition"
    /\ ImageBarrier(0 .. (mip_levels - 1), "VK_IMAGE_LAYOUT_UNDEFINED",
                    "VK_IMAGE_LAYOUT_TRANSFER_DST_OPTIMAL")
    /\ pc' = "ct_copy"
    /\ UNCHANGED <<snap, localVars, objectVars, clockVars, windowVars, width_zero,
                   imageVars, current_frame_, syncVars, frameVars, gpuVars,
                   countVars, vk_failed, exitVars, tex_width, tex_height,
                   mip_levels, mip_i, mip_width, mip_height>>

\* copy_buffer_to_image, then generate_mipmaps up to its loop: the test of
\* the format's features may throw
copy_buffer_to_image ==
    /\ pc = "ct_copy"
    /\ Transfer("copy", VK_NULL_HANDLE, 0)
    /\ \E linear_blit \in BOOLEAN :
         IF linear_blit
         THEN /\ mip_i' = 1
              /\ mip_width' = tex_width
              /\ mip_height' = tex_height
              /\ pc' = "gm_loop"
              /\ UNCHANGED exitVars
         ELSE /\ Throw
              /\ UNCHANGED <<mip_i, mip_width, mip_height>>
    /\ UNCHANGED <<snap, localVars, objectVars, clockVars, windowVars, width_zero,
                   imageVars, current_frame_, syncVars, frameVars, gpuVars,
                   countVars, vk_failed, tex_width, tex_height, mip_levels>>

\* for (i = 1; i < mip_levels; ++i) { blit_barrier ...; after the loop the
\* barrier of the last level
generate_mipmaps_loop ==
    /\ pc = "gm_loop"
    /\ IF mip_i < mip_levels
       THEN /\ ImageBarrier({BlitBarrierLevel(mip_i)},
                            "VK_IMAGE_LAYOUT_TRANSFER_DST_OPTIMAL",
                            "VK_IMAGE_LAYOUT_TRANSFER_SRC_OPTIMAL")
            /\ pc' = "gm_blit"
       ELSE /\ ImageBarrier({mip_levels - 1},
                            "VK_IMAGE_LAYOUT_TRANSFER_DST_OPTIMAL",
                            "VK_IMAGE_LAYOUT_SHADER_READ_ONLY_OPTIMAL")
            /\ pc' = "ct_done"
    /\ UNCHANGED <<snap, localVars, objectVars, clockVars, windowVars, width_zero,
                   imageVars, current_frame_, syncVars, frameVars, gpuVars,
                   countVars, vk_failed, exitVars, tex_width, tex_height,
                   mip_levels, mip_i, mip_width, mip_height>>

\* vkCmdBlitImage from level i - 1 to level i
generate_mipmaps_blit ==
    /\ pc = "gm_blit"
    /\ Transfer("blit", mip_i - 1, mip_i)
    /\ pc' = "gm_transition"
    /\ UNCHANGED <<snap, localVars, objectVars, clockVars, windowVars, width_zero,
                   imageVars, current_frame_, syncVars, frameVars, gpuVars,
                   countVars, vk_failed, exitVars, tex_width, tex_height,
                   mip_levels, mip_i, mip_width, mip_height>>

\* transition_barrier of level i - 1, the halving of the extent, ++i }
generate_mipmaps_transition ==
    /\ pc = "gm_transition"
    /\ ImageBarrier({mip_i - 1}, "VK_IMAGE_LAYOUT_TRANSFER_SRC_OPTIMAL",
                    "VK_IMAGE_LAYOUT_SHADER_READ_ONLY_OPTIMAL")
    /\ mip_width' = IF mip_width > 1 THEN mip_width \div 2 ELSE mip_width
    /\ mip_height' = IF mip_height > 1 THEN mip_height \div 2 ELSE mip_height
    /\ mip_i' = mip_i + 1
    /\ pc' = "gm_loop"
    /\ UNCHANGED <<snap, localVars, objectVars, clockVars, windowVars, width_zero,
                   imageVars, current_frame_, syncVars, frameVars, gpuVars,
                   countVars, vk_failed, exitVars, tex_width, tex_height,
                   mip_levels>>

InitTexture == Init /\ snap = "full"

NextTexture ==
    \/ init_window
    \/ create_texture
    \/ transition_image_layout
    \/ copy_buffer_to_image
    \/ generate_mipmaps_loop
    \/ generate_mipmaps_blit
    \/ generate_mipmaps_transition
    \/ main_catch

SpecTexture == InitTexture /\ [][NextTexture]_vars

\* ====================================================== create_swap_chain
\* SpecSwapInfo follows create_swap_chain from the surface capabilities to
\* the VkSwapchainCreateInfoKHR it hands to vkCreateSwapchainKHR.
Min(a, b) == IF a < b THEN a ELSE b

\* query_swap_chain_support: capabilities.minImageCount is at least 1,
\* capabilities.maxImageCount is 0 (no limit) or at least minImageCount
query_swap_chain_support ==
    /\ pc = "init_vulkan"
    /\ snap \in {"basic", "full"}
    /\ \E lo \in 1 .. MaxMinImages, hi \in 0 .. (MaxMinImages + 1) :
         /\ hi = 0 \/ hi >= lo
         /\ min_images' = lo
         /\ max_images' = hi
    /\ pc' = "sc_image_count"
    /\ UNCHANGED <<snap, deviceVars, image_count, minImageCount, cameraVars, meshVars, objectVars,
                   frameProtocolVars, exitVars>>

\* const uint32_t image_count = max_images == 0
\*     ? (min_images + 1) : std::min(min_images + 1, max_images);
create_swap_chain_image_count ==
    /\ pc = "sc_image_count"
    /\ image_count' =
         IF max_images = 0
         THEN min_images + 1
         ELSE Min(min_images + 1, max_images)
    /\ pc' = "sc_create_info"
    /\ UNCHANGED <<snap, deviceVars, min_images, max_images, minImageCount, cameraVars, meshVars, objectVars,
                   frameProtocolVars, exitVars>>

\* VkSwapchainCreateInfoKHR create_info = { ..., .minImageCount = min_images,
\* ... }; vkCreateSwapchainKHR(device_, &create_info, nullptr, &swap_chain_)
create_swap_chain_create_info ==
    /\ pc = "sc_create_info"
    /\ minImageCount' = min_images
    /\ pc' = "sc_created"
    /\ UNCHANGED <<snap, deviceVars, min_images, max_images, image_count, cameraVars, meshVars, objectVars,
                   frameProtocolVars, exitVars>>

InitSwapInfo == Init /\ snap \in {"basic", "full"}

NextSwapInfo ==
    \/ init_window
    \/ query_swap_chain_support
    \/ create_swap_chain_image_count
    \/ create_swap_chain_create_info
    \/ main_catch

SpecSwapInfo == InitSwapInfo /\ [][NextSwapInfo]_vars

\* =============================================================== load_mesh
\* SpecMesh follows load_mesh through the faces of one shape, and create_mesh
\* to the draw count it records for the shape.
\* the conversion of a value to uint16_t
Uint16(n) == n % 65536

\* load_mesh reaches the loop over the faces of a shape: vertices and indices
\* are empty, index_offset = 0
load_mesh_shape ==
    /\ pc = "init_vulkan"
    /\ snap = "full"
    /\ pc' = "load_mesh_face"
    /\ UNCHANGED <<snap, deviceVars, meshVars, swapInfoVars, cameraVars, objectVars,
                   frameProtocolVars, exitVars>>

\* the numbers of iterations of the loop over the faces that one step of
\* load_mesh_face covers
FaceRuns == {2 ^ k : k \in 0 .. 14}

\* a run of iterations of the loop over the faces, the last of them shown:
\* Expects(vertex_count == 3), three vertices are appended,
\* indices.emplace_back(index_offset), (index_offset + 2),
\* (index_offset + 1) convert a std::size_t to the uint16_t element type,
\* index_offset += vertex_count.  The faces before the last one of the run
\* are triangles.
load_mesh_face ==
    /\ pc = "load_mesh_face"
    /\ \E run \in FaceRuns, vertex_count \in {3, 4} :
         /\ face_index + run <= MaxFaces
         /\ IF vertex_count # 3
            THEN /\ \E mode \in ContractModes :
                      ContractViolation("load_mesh", mode)
                 /\ UNCHANGED meshVars
            ELSE /\ vertices_size' = vertices_size + 3 * run
                 /\ face_indices' =
                      <<Uint16(index_offset + 3 * (run - 1)),
                        Uint16(index_offset + 3 * (run - 1) + 2),
                        Uint16(index_offset + 3 * (run - 1) + 1)>>
                 /\ indices_size' = indices_size + 3 * run
                 /\ index_offset' = index_offset + 3 * run
                 /\ face_index' = face_index + run
                 /\ UNCHANGED <<pc, index_buffer_count, exitVars>>
    /\ UNCHANGED <<snap, deviceVars, swapInfoVars, cameraVars, objectVars,
                   frameProtocolVars>>

\* the shape has no more faces: Ensures(!vertices.empty()),
\* Ensures(!indices.empty()), meshes.push_back(...); create_mesh records
\* narrow_cast<uint16_t>(mesh.indices.size()) as the shape's draw count
create_mesh_count ==
    /\ pc = "load_mesh_face"
    /\ IF vertices_size = 0
       THEN /\ \E mode \in ContractModes :
                 ContractViolation("load_mesh", mode)
            /\ UNCHANGED meshVars
       ELSE /\ index_buffer_count' = Uint16(indices_size)
            /\ pc' = "mesh_created"
            /\ UNCHANGED <<face_index, index_offset, vertices_size,
                           indices_size, face_indices, exitVars>>
    /\ UNCHANGED <<snap, deviceVars, swapInfoVars, cameraVars, objectVars,
                   frameProtocolVars>>

InitMesh == Init /\ snap = "full"

NextMesh ==
    \/ init_window
    \/ load_mesh_shape
    \/ load_mesh_face
    \/ create_mesh_count
    \/ main_catch

SpecMesh == InitMesh /\ [][NextMesh]_vars

\* ======================================================== device selection
\* SpecDevice follows pick_physical_device and the callers of
\* find_queue_families that take .value() of the two optionals.  A physical
\* device is the sequence of its queue families (family i of the code is
\* element i + 1: graphics is queueFlags & VK_QUEUE_GRAPHICS_BIT, present is
\* what vkGetPhysicalDeviceSurfaceSupportKHR reports) and supported, the other
\* conjuncts of is_device_suitable: extensions_supported && swap_chain_adequate
\* and, in the snapshot with textures, supported_features.samplerAnisotropy.
QueueFamilies == [graphics : BOOLEAN, present : BOOLEAN]

FamilyLists == UNION {[1 .. n -> QueueFamilies] : n \in 0 .. MaxFamilies}

PhysicalDevices == [families : FamilyLists, supported : BOOLEAN]

\* QueueFamilyIndices::is_complete
is_complete(indices) ==
    indices.graphics_family # NoFamily /\ indices.present_family # NoFamily

\* the loop of find_queue_families from family i on: both assignments, then
\* if (indices.is_complete()) break; i++
RECURSIVE find_queue_families_from(_, _, _)
find_queue_families_from(families, i, indices) ==
    IF i >= Len(families)
    THEN indices
    ELSE LET family == families[i + 1]
             assigned ==
                 [graphics_family |-> IF family.graphics
                                      THEN i
                                      ELSE indices.graphics_family,
                  present_family |-> IF family.present
                                     THEN i
                                     ELSE indices.present_family]
         IN  IF is_complete(assigned)
             THEN assigned
             ELSE find_queue_families_from(families, i + 1, assigned)

find_queue_families(device) ==
    find_queue_families_from(device.families, 0, NoIndices)

is_device_suitable(device) ==
    is_complete(find_queue_families(device)) /\ device.supported

\* variant: devices.front() of the vector as enumerated
Front_unpartitioned(ds) == ds

\* the devices that devices.front() can be after std::partition with
\* is_device_suitable: a suitable one if there is any (std::partition keeps
\* no order), any device if there is none
Front(ds) ==
    IF \E d \in ds : is_device_suitable(d)
    THEN {d \in ds : is_device_suitable(d)}
    ELSE ds

\* it == devices.begin(): no element satisfies the predicate
PartitionPointIsBegin(ds) == \A d \in ds : ~is_device_suitable(d)

\* init_vulkan reaches pick_physical_device
pick_physical_device_begin ==
    /\ pc = "init_vulkan"
    /\ snap \in {"basic", "full"}
    /\ pc' = "pick_physical_device"
    /\ UNCHANGED <<snap, deviceVars, swapInfoVars, cameraVars, meshVars,
                   objectVars, frameProtocolVars, exitVars>>

\* vkEnumeratePhysicalDevices: the instance reports one more device
vkEnumeratePhysicalDevices ==
    /\ pc = "pick_physical_device"
    /\ Cardinality(devices) < MaxDevices
    /\ \E d \in PhysicalDevices \ devices : devices' = devices \cup {d}
    /\ UNCHANGED <<snap, pc, physical_device_, queue_indices,
                   bad_optional_access, swapInfoVars, cameraVars, meshVars,
                   objectVars, frameProtocolVars, exitVars>>

\* pick_physical_device after the enumeration; its vector ends with the call
pick_physical_device ==
    /\ pc = "pick_physical_device"
    /\ devices' = {}
    /\ IF devices = {} \/ PartitionPointIsBegin(devices)
       THEN /\ Throw
            /\ UNCHANGED physical_device_
       ELSE /\ \E d \in Front(devices) : physical_device_' = d
            /\ pc' = "create_logical_device"
            /\ UNCHANGED exitVars
    /\ UNCHANGED <<snap, queue_indices, bad_optional_access,
                   swapInfoVars, cameraVars, meshVars, objectVars,
                   frameProtocolVars>>

\* const QueueFamilyIndices indices = find_queue_families(physical_device_)
\* and the .value() of the optionals in wanted; std::optional::value throws
\* std::bad_optional_access on an empty optional
QueueFamilyValues(wanted, then) ==
    /\ queue_indices' = find_queue_families(physical_device_)
    /\ IF \E f \in wanted : queue_indices'[f] = NoFamily
       THEN /\ bad_optional_access' = TRUE
            /\ Throw
       ELSE /\ pc' = then
            /\ UNCHANGED <<bad_optional_access, exitVars>>
    /\ UNCHANGED <<snap, devices, physical_device_, swapInfoVars,
                   cameraVars, meshVars, objectVars, frameProtocolVars>>

\* create_logical_device: unique_queue_families and the two vkGetDeviceQueue
\* calls
create_logical_device ==
    /\ pc = "create_logical_device"
    /\ QueueFamilyValues({"graphics_family", "present_family"},
                         "create_swap_chain")

\* create_swap_chain: queue_family_indices[]
create_swap_chain_queue_families ==
    /\ pc = "create_swap_chain"
    /\ QueueFamilyValues({"graphics_family", "present_family"},
                         "create_command_pool")

\* create_command_pool: .queueFamilyIndex
create_command_pool_queue_family ==
    /\ pc = "create_command_pool"
    /\ QueueFamilyValues({"graphics_family"}, "command_pool_created")

InitDevice == Init /\ snap \in {"basic", "full"}

NextDevice ==
    \/ init_window
    \/ pick_physical_device_begin
    \/ vkEnumeratePhysicalDevices
    \/ pick_physical_device
    \/ create_logical_device
    \/ create_swap_chain_queue_families
    \/ create_command_pool_queue_family
    \/ main_catch

SpecDevice == InitDevice /\ [][NextDevice]_vars

\* ================================================================== camera
\* SpecCamera follows the mouse-button callback and the camera update of
\* main_loop.  A transform is the sequence of the factors of a matrix
\* product, left to right (a mat4 {} is the empty sequence); a factor is a
\* kind and its argument.
\* the positions glfwGetCursorPos can return
CursorPositions == (0 .. MaxCursor) \X (0 .. MaxCursor)

\* variant: the grabbed camera is built on the previous camera transform
GrabbedCamera_accumulated(diff) ==
    <<<<"tilt", diff[2]>>>> \o camera_transform_
        \o <<<<"translate", diff[2]>>, <<"pan", diff[1]>>>>

\* camera_transform_ = tilt * mouse_grab_transform_ * translate * pan
GrabbedCamera(diff) ==
    <<<<"tilt", diff[2]>>>> \o mouse_grab_transform_
        \o <<<<"translate", diff[2]>>, <<"pan", diff[1]>>>>

\* camera_transform_ = camera_transform_ * pan
AutoCamera(dt) == camera_transform_ \o <<<<"pan", dt>>>>

\* main_loop before its loop: camera_transform_ = glm::lookAt(...)
main_loop_begin ==
    /\ pc = "loop"
    /\ snap = "full"
    /\ camera_transform_' = <<<<"lookAt", 0>>>>
    /\ last_frame_duration' = 0
    /\ pc' = "camera_poll"
    /\ step' = 0
    /\ UNCHANGED <<snap, deviceVars, mouse_grab_, mouse_grab_origin_,
                   mouse_grab_transform_, cursor, mouse_event, camera_frames,
                   swapInfoVars, meshVars, generation, destroyed, live,
                   recreate_count, frameProtocolVars, exitVars>>

\* glfw_mouse_button(window, button, action, mods), run by glfwPollEvents
\* or glfwWaitEvents
glfw_mouse_button ==
    /\ pc = "camera_poll"
    /\ mouse_event.seq < MaxMouseEvents
    /\ \E button \in {"LEFT", "RIGHT"},
          action \in {"PRESS", "RELEASE"} :
         /\ mouse_event' = [seq |-> mouse_event.seq + 1, button |-> button,
                            action |-> action]
         /\ IF button = "LEFT"
            THEN IF action = "PRESS"
                 THEN /\ \E p \in CursorPositions : cursor' = p
                      /\ mouse_grab_' = TRUE
                      /\ mouse_grab_origin_' = cursor'
                      /\ mouse_grab_transform_' = camera_transform_
                 ELSE /\ mouse_grab_' = FALSE
                      /\ UNCHANGED <<cursor, mouse_grab_origin_,
                                     mouse_grab_transform_>>
            ELSE UNCHANGED <<cursor, mouse_grab_, mouse_grab_origin_,
                             mouse_grab_transform_>>
    /\ UNCHANGED <<snap, deviceVars, pc, camera_transform_,
                   last_frame_duration, camera_frames, swapInfoVars, meshVars, objectVars,
                   frameProtocolVars, exitVars>>

\* one iteration of main_loop after glfwPollEvents: the camera update,
\* draw_frame and last_frame_duration = ms_per_frame
main_loop_camera ==
    /\ pc = "camera_poll"
    /\ camera_frames < MaxCameraFrames
    /\ IF mouse_grab_
       THEN /\ \E p \in CursorPositions : cursor' = p
            /\ camera_transform_' =
                 GrabbedCamera(<<cursor'[1] - mouse_grab_origin_[1],
                                 cursor'[2] - mouse_grab_origin_[2]>>)
       ELSE /\ camera_transform_' = AutoCamera(last_frame_duration)
            /\ UNCHANGED cursor
    /\ \E ms \in 0 .. 1 : last_frame_duration' = ms
    /\ camera_frames' = camera_frames + 1
    /\ UNCHANGED <<snap, deviceVars, pc, mouse_grab_, mouse_grab_origin_,
                   mouse_grab_transform_, mouse_event, swapInfoVars,
                   meshVars, objectVars, frameProtocolVars, exitVars>>

InitCamera == Init /\ snap = "full"

NextCamera ==
    \/ run_init_window
    \/ run_init_vulkan
    \/ main_loop_begin
    \/ glfw_mouse_button
    \/ main_loop_camera
    \/ main_catch

SpecCamera == InitCamera /\ [][NextCamera]_vars

TypeOK ==
    /\ snap \in Snapshots
    /\ current_frame_ \in Nat
    /\ num_images \in 0 .. (MaxImages + 1)
    /\ exit_code \in {-1, EXIT_SUCCESS, EXIT_FAILURE}

\* =================================================================== claims
RecreatePcs == {"rs_loop", "rs_events", "rs_idle"}
AcquiredOk == {"VK_SUCCESS", "VK_SUBOPTIMAL_KHR"}
StaleCodes == {"VK_ERROR_OUT_OF_DATE_KHR", "VK_SUBOPTIMAL_KHR"}

C1_Transitions ==
    {<<"Idle", "Acquiring">>, <<"Acquiring", "Submitted">>,
     <<"Submitted", "Presenting">>, <<"Presenting", "Idle">>,
     <<"Acquiring", "Idle">>}

\* C1: in every draw_frame call the frame controller moves Idle -> Acquiring
\* -> Submitted -> Presenting -> Idle, the only other transition being
\* Acquiring -> Idle; no present happens without a submit in the same call
\* and no submit without a successful acquire in the same call.
C1_DrawFrameOrder ==
    [][/\ FrameState' # FrameState =>
            <<FrameState, FrameState'>> \in C1_Transitions
       /\ (FrameState' = "Presenting" /\ FrameState # "Presenting") =>
            (FrameState = "Submitted" /\ last_submit.seq = submit_count)
       /\ (FrameState' = "Submitted" /\ FrameState # "Submitted") =>
            (submit_count' = submit_count + 1 /\ acquire_result \in AcquiredOk)
      ]_vars

\* C2: at most max_frames_in_flight_ submitted frames are unfinished (their
\* fence not yet signalled), and never two of them in the same slot.
C2_BoundedInFlight ==
    /\ Cardinality(pending) <= max_frames_in_flight_
    /\ \A s \in pending, t \in pending : s.slot = t.slot => s = t
    /\ \A s \in pending : in_flight_fences_[s.fence] = "unsignaled"

C2_Witness ==
    /\ Cardinality(pending) = max_frames_in_flight_
    /\ submit_count >= 3

\* C3: in the snapshots with recreate_swap_chain, a stale acquire result
\* (VK_ERROR_OUT_OF_DATE_KHR or VK_SUBOPTIMAL_KHR) makes draw_frame call
\* recreate_swap_chain and leave the frame: until draw_frame is left nothing
\* is submitted or presented, no fence is bound in images_in_flight_ and
\* current_frame_ is not advanced.  The frame is left by the return to the
\* main loop, by an exception of recreate_swap_chain, or by the end of the
\* process inside it.
C3_AbortOnStale ==
    [][/\ (snap = "full" /\ pc = "df_acquire" /\ pc' # pc
             /\ acquire_result' \in StaleCodes) => pc' = "rs_loop"
       /\ ((pc = "df_acquire" /\ pc' = "rs_loop") \/ pc \in RecreatePcs) =>
            /\ pc' \in RecreatePcs \cup {"loop", "caught", "terminated"}
            /\ UNCHANGED <<submit_count, present_count, images_in_flight_,
                           current_frame_>>
      ]_vars

C3_Witness ==
    /\ snap = "full"
    /\ pc = "rs_idle"
    /\ acquire_result = "VK_SUBOPTIMAL_KHR"
    /\ pending # {}
    /\ submit_count >= 2

C5_SlotObjects ==
    \A s \in pending \cup (IF last_submit # NoSubmit THEN {last_submit} ELSE {}) :
        /\ s.wait = s.slot
        /\ s.wait = s.acq
        /\ s.signal = s.slot
        /\ s.fence = s.slot

C5_Witness ==
    /\ pc = "df_present"
    /\ last_submit.slot = 1
    /\ \E s \in pending : s.slot = 0

\* C6: vkQueuePresentKHR waits on the render-finished semaphore signalled by
\* the same frame's submission and presents the image acquired in that
\* frame; every signal of a render-finished semaphore is consumed by a
\* present before the semaphore is signalled again.
C6_PresentConsumesSignal ==
    /\ \A f \in Slots : render_finished_semaphores_[f] <= 1
    /\ pc = "df_advance" =>
         /\ last_present.sem = last_submit.signal
         /\ last_submit.seq = submit_count
         /\ last_present.image = image_index
         /\ last_present.acquired

\* C7: current_frame_ stays in 0 .. max_frames_in_flight_ - 1, a draw_frame
\* that presents replaces it by (current_frame_ + 1) mod 2, and consecutive
\* presented frames alternate between the two slots.
C7_SlotAlternates ==
    [][/\ current_frame_' \in Slots
       /\ (pc = "df_advance" /\ pc' # pc) =>
            current_frame_' = (current_frame_ + 1) % 2
       /\ present_count' # present_count =>
            /\ presented_slot' = current_frame_
            /\ presented_slot # VK_NULL_HANDLE =>
                 presented_slot' = 1 - presented_slot
      ]_vars

C7_Witness ==
    /\ present_count >= 3
    /\ pc = "loop"
    /\ current_frame_ = 1

\* C8: every in-flight fence is created signalled; a fence is reset only in
\* draw_frame, after the wait on it has returned and right before it is
\* handed to vkQueueSubmit, so it is signalled and has no pending
\* submission when reset, and it is unsignalled while a submission holds it.
C8_FenceDiscipline ==
    [][/\ (pc = "init_vulkan" /\ pc' = "loop") =>
            \A f \in Slots : in_flight_fences_'[f] = "signaled"
       /\ \A f \in Slots :
            (in_flight_fences_[f] = "signaled"
               /\ in_flight_fences_'[f] = "unsignaled") =>
              /\ pc = "df_image_wait"
              /\ f = current_frame_
              /\ pc' \in {"df_present", "caught"}
       /\ (pc = "df_image_wait" /\ pc' = "df_present") =>
            /\ in_flight_fences_[current_frame_] = "signaled"
            /\ \A s \in pending : s.fence # current_frame_
            /\ last_submit'.fence = current_frame_
       /\ \A s \in pending' : in_flight_fences_'[s.fence] = "unsignaled"
      ]_vars

C8_Witness ==
    /\ pc = "df_present"
    /\ submit_count >= 3
    /\ in_flight_fences_[current_frame_] = "unsignaled"

\* C9: any graphics-API call that returns an error raises a runtime error
\* that propagates to main, is logged and yields a non-zero exit code.
C9_ErrorsThrow ==
    vk_failed =>
        /\ thrown
        /\ pc \in {"caught", "exited"}
        /\ pc = "exited" => (exit_code # EXIT_SUCCESS /\ logged >= 1)

\* C10: the process exits with code 0 exactly when run() returned normally
\* and with code 1 whenever an exception propagated out of run(); the
\* exception is caught once, in main, and logged before exiting.
C10_ExitCode ==
    /\ caught_count <= 1
    /\ thrown => (pc \in {"caught", "exited"} /\ ~run_returned)
    /\ pc = "exited" =>
         /\ exit_code \in {EXIT_SUCCESS, EXIT_FAILURE}
         /\ exit_code = EXIT_SUCCESS <=> run_returned
         /\ thrown => (exit_code = 1 /\ caught_count = 1 /\ logged >= 1)
         /\ caught_count = 1 => thrown
    /\ pc # "exited" => exit_code = -1

C10_Witness ==
    /\ pc = "exited"
    /\ thrown
    /\ exit_code = 1
    /\ submit_count >= 1

\* C11: a failed precondition (an Expects() of create_swap_chain,
\* choose_swap_surface_format, choose_swap_present_mode,
\* transition_image_layout or load_mesh) raises an error that reaches main's
\* handler, is logged there and gives exit code 1.
C11_PreconditionsThrow ==
    violated # "none" =>
        /\ thrown
        /\ pc \in {"caught", "exited"}
        /\ pc = "exited" =>
             (exit_code = EXIT_FAILURE /\ logged >= 1 /\ caught_count = 1)

\* C12: while framebuffer_resized_ is set nothing is submitted; the flag is
\* cleared only by the draw_frame that then calls recreate_swap_chain, which
\* that draw_frame does whatever the acquire returned; a flag set while
\* recreate_swap_chain runs stays set until the following draw_frame.
C12_ResizeRecreates ==
    [][snap = "full" =>
         /\ (framebuffer_resized_ \/ pc \in RecreatePcs) =>
              submit_count' = submit_count
         /\ (framebuffer_resized_ /\ ~framebuffer_resized_') =>
              (pc = "df_acquire" /\ pc' = "rs_loop")
         /\ (framebuffer_resized_ /\ pc = "df_acquire" /\ pc' # pc) =>
              (pc' = "rs_loop" /\ ~framebuffer_resized_')
         /\ (framebuffer_resized_ /\ pc \in RecreatePcs) =>
              framebuffer_resized_'
      ]_vars

C12_Witness ==
    /\ snap = "full"
    /\ pc = "rs_idle"
    /\ framebuffer_resized_
    /\ submit_count >= 1

\* C13: every per-image container that draw_frame indexes with the acquired
\* image index (images_in_flight_, command_buffers_, uniform_buffers_memory_)
\* has exactly swap_chain_images_.size() entries, also after a recreation
\* that changed the number of images, so the index is always in range.
C13_ContainersMatch ==
    pc \notin {"init_window", "init_vulkan"} =>
        /\ DOMAIN images_in_flight_ = Images
        /\ command_buffers_ = num_images
        /\ uniform_buffers_memory_ = num_images
        /\ (pc = "df_image_wait" /\ snap = "full") =>
             image_index \in DOMAIN images_in_flight_

\* the stages of run() and of main, in the order they may follow each other
C14_StageOrder ==
    {<<"init_window", "init_vulkan">>, <<"init_vulkan", "loop">>,
     <<"loop", "rs_idle">>, <<"rs_idle", "loop">>, <<"loop", "cleanup">>,
     <<"cleanup", "run_done">>, <<"run_done", "exited">>,
     <<"init_window", "caught">>, <<"init_vulkan", "caught">>,
     <<"loop", "caught">>, <<"rs_idle", "caught">>, <<"caught", "exited">>}

\* what must exist when object o is created
C14_Requires(o) ==
    CASE o = "surface" -> {"window", "instance"}
      [] o = "physical_device" -> {"surface"}
      [] o = "device" -> {"surface", "physical_device"}
      [] o = "swap_chain" -> {"device"}
      [] o = "image_views" -> {"swap_chain"}
      [] o = "render_pass" -> {"swap_chain", "image_views"}
      [] o = "pipeline" -> {"swap_chain", "image_views", "render_pass"}
      [] o = "colour_resources" -> {"swap_chain"}
      [] o = "depth_resources" -> {"swap_chain", "command_pool"}
      [] o = "framebuffers" ->
           {"swap_chain", "image_views", "render_pass", "colour_resources",
            "depth_resources"}
      [] o = "mesh" -> {"command_pool"}
      [] o = "textures" -> {"command_pool"}
      [] o = "descriptor_sets" ->
           {"mesh", "textures", "uniform_buffers", "descriptor_pool",
            "descriptor_set_layout"}
      [] o = "command_buffers" ->
           {"command_pool", "render_pass", "pipeline", "framebuffers",
            "mesh", "descriptor_sets"}
      [] OTHER -> {}

\* the objects the running snapshot has at all
C14_Known == UNION {Creates(InitVulkanCalls(snap)[k]) :
                      k \in 1 .. Len(InitVulkanCalls(snap))} \cup {"window"}

\* C14: run() goes through init_window, init_vulkan, main_loop and cleanup
\* in that order, and in init_vulkan and recreate_swap_chain an object is
\* created only when every object it depends on exists.
C14_CreationOrder ==
    [][/\ pc' # pc => <<pc, pc'>> \in C14_StageOrder
       /\ (pc = "init_vulkan" /\ pc' = "loop") => live = C14_Known
       /\ (pc = "rs_idle" /\ pc' = "loop") => live = C14_Known
       /\ \A o \in ObjectNames :
            generation'[o] # generation[o] =>
              (C14_Requires(o) \cap C14_Known) \subseteq live
      ]_vars

C14_Witness ==
    /\ snap = "full"
    /\ pc = "loop"
    /\ recreate_count = 2
    /\ generation["framebuffers"] = 3
    /\ live = C14_Known

\* the objects the claim says recreate_swap_chain re-creates
C15_Recreated == SwapChainObjects \cup {"image_available_semaphores"}

\* C15: recreate_swap_chain re-creates the swapchain-dependent objects and
\* the image-available semaphores, each exactly once per call, and neither
\* destroys nor creates any other object (instance, surface, device and
\* queues, command pool, descriptor-set layout, mesh and textures, in-flight
\* fences, render-finished semaphores).
C15_RecreateFrame ==
    [][pc = "rs_idle" =>
         /\ \A o \in ObjectNames \ C15_Recreated :
              /\ generation'[o] = generation[o]
              /\ (o \in live') <=> (o \in live)
         /\ pc' = "loop" =>
              /\ \A o \in C15_Recreated :
                   o \in live /\ generation[o] = 1 + recreate_count
              /\ \A o \in ObjectNames \ C15_Recreated :
                   o \in live /\ generation[o] = 1
      ]_vars

C15_Witness ==
    /\ snap = "full"
    /\ pc = "loop"
    /\ recreate_count >= 1
    /\ generation["swap_chain"] = 1 + recreate_count
    /\ generation["image_available_semaphores"] = 1 + recreate_count
    /\ generation["command_pool"] = 1

\* C16: the sleep in main_loop caps the frame rate at max_fps: two
\* consecutive draw_frame calls never complete less than
\* min_ms_per_frame = 9 ms apart.
C16_FrameCap ==
    /\ min_ms_per_frame = 9
    /\ gap # -1 => gap >= min_ms_per_frame

\* C17: recreate_swap_chain is entered only from draw_frame and only on a
\* stale acquire result or a pending resize flag; any other acquire error
\* and a failed submit throw; once an exception is thrown the program calls
\* nothing more (no retry, no cleanup) until main has logged it and exits.
C17_OnlyRecovery ==
    [][/\ (pc' = "rs_loop" /\ pc \notin RecreatePcs) =>
            /\ snap = "full"
            /\ pc = "df_acquire"
            /\ acquire_result' \in StaleCodes \/ framebuffer_resized_
       /\ (snap = "full" /\ pc = "df_acquire" /\ pc' # pc
             /\ acquire_result' = "VK_ERROR" /\ ~framebuffer_resized_) =>
            pc' = "caught"
       /\ (pc = "df_image_wait" /\ pc' # pc /\ submit_count' = submit_count) =>
            pc' = "caught"
       /\ (thrown' /\ ~thrown) => pc' = "caught"
       /\ pc = "caught" =>
            /\ pc' = "exited"
            /\ logged' = logged + 1
            /\ ~run_returned'
            /\ UNCHANGED <<frame_count, submit_count, present_count,
                           current_frame_, images_in_flight_, pending,
                           present_queue, imageVars>>
      ]_vars

C17_Witness ==
    /\ snap = "full"
    /\ pc = "exited"
    /\ thrown
    /\ acquire_result = "VK_ERROR"
    /\ submit_count >= 1
    /\ ~run_returned

C19_MipLayouts ==
    [][/\ (last_cmd'.seq # last_cmd.seq /\ last_cmd'.kind = "barrier") =>
            /\ last_cmd'.levels \subseteq DOMAIN layout
            /\ \A l \in last_cmd'.levels : layout[l] = last_cmd'.old
       /\ (last_cmd'.seq # last_cmd.seq /\ last_cmd'.kind = "blit") =>
            /\ last_cmd'.src \in DOMAIN layout
            /\ last_cmd'.dst \in DOMAIN layout
            /\ layout[last_cmd'.src] = "VK_IMAGE_LAYOUT_TRANSFER_SRC_OPTIMAL"
            /\ layout[last_cmd'.dst] = "VK_IMAGE_LAYOUT_TRANSFER_DST_OPTIMAL"
       /\ (last_cmd'.seq # last_cmd.seq /\ last_cmd'.kind = "copy") =>
            layout[last_cmd'.dst] = "VK_IMAGE_LAYOUT_TRANSFER_DST_OPTIMAL"
       /\ pc' = "ct_done" =>
            /\ mip_levels' >= 1
            /\ DOMAIN layout' = 0 .. (mip_levels' - 1)
            /\ \A l \in 0 .. (mip_levels' - 1) :
                 layout'[l] = "VK_IMAGE_LAYOUT_SHADER_READ_ONLY_OPTIMAL"
      ]_vars

C19_Witness ==
    /\ pc = "ct_done"
    /\ mip_levels = 4
    /\ last_cmd.seq = 12
    /\ tex_width = 3
    /\ mip_width = 1

\* a pending batch whose semaphore wait can be satisfied: the GPU can
\* complete it and signal its fence
C20_WillSignal(f) ==
    \E s \in pending :
        s.fence = f /\ image_available_semaphores_[s.wait] >= 1

\* C20: whenever draw_frame waits on a fence (the slot's fence, or the fence
\* bound to the acquired image) the fence is signalled or a pending
\* submission will signal it, so the wait returns once the GPU has
\* completed its work; a fence that no submission holds is signalled.
C20_WaitsReturn ==
    /\ pc = "df_wait" =>
         \/ in_flight_fences_[current_frame_] = "signaled"
         \/ C20_WillSignal(current_frame_)
    /\ (pc = "df_image_wait" /\ image_index \in DOMAIN images_in_flight_
          /\ images_in_flight_[image_index] # VK_NULL_HANDLE) =>
         \/ in_flight_fences_[images_in_flight_[image_index]] = "signaled"
         \/ C20_WillSignal(images_in_flight_[image_index])
    /\ pc \in {"df_wait", "df_acquire", "df_image_wait"} =>
         \A f \in Slots :
             (\A s \in pending : s.fence # f) =>
                 in_flight_fences_[f] = "signaled"

\* C21: in src/src/main.cpp every batch draw_frame submits holds exactly one
\* command buffer, command_buffers_[image_index], and the queue reads no
\* element past the end of command_buffers_.
C21_OneCommandBuffer ==
    \A s \in pending :
        snap = "basic" =>
            /\ CommandBuffersRead(s) = {s.image}
            /\ CommandBuffersRead(s) \subseteq 0 .. (command_buffers_ - 1)

\* C22: whenever draw_frame is about to call vkAcquireNextImageKHR with
\* image_available_semaphores_[current_frame_], that semaphore carries no
\* signal and no submitted batch still waits on it, also in the frame that
\* follows an aborted frame.
C22_AcquireSemaphoreFree ==
    pc = "df_acquire" =>
        /\ image_available_semaphores_[current_frame_] = 0
        /\ \A s \in pending : s.wait # current_frame_

C22_Witness ==
    /\ snap = "full"
    /\ pc = "df_acquire"
    /\ submit_count >= 1
    /\ frame_count > submit_count + 1

\* C23: the steps that destroy objects (recreate_swap_chain after its wait
\* loop, and cleanup) are taken only when no submitted batch and no present
\* request is left on the queues, so nothing is destroyed while a submission
\* that references it executes.
C23_DestroyWhenIdle ==
    [][((pc = "rs_idle" /\ pc' # "rs_idle") \/ pc = "cleanup") =>
          /\ pending = {}
          /\ present_queue = <<>>
          /\ pending' = {}
          /\ present_queue' = <<>>
      ]_vars

C23_Witness ==
    /\ snap = "full"
    /\ pc = "cleanup"
    /\ submit_count >= 2
    /\ frame_count > submit_count

\* C24: recreate_swap_chain is past its wait loop (at vkDeviceWaitIdle and
\* create_swap_chain) only while the window's framebuffer has a width and a
\* height other than 0.
C24_NotMinimised ==
    pc = "rs_idle" => ~fb_zero

\* C25: once the window's close flag is set, the program eventually returns
\* EXIT_SUCCESS from main, unless a Vulkan call or a precondition fails; this
\* holds also when the flag is set while the window is minimised and
\* recreate_swap_chain waits.
C25_CloseExits ==
    window_should_close ~>
        (exit_code = EXIT_SUCCESS \/ thrown \/ pc = "terminated")

\* the objects that must still exist when object o is destroyed
C26_Parents(o) ==
    CASE o = "window" -> {}
      [] o = "instance" -> {"window"}
      [] o \in {"device", "surface", "debug_messenger", "physical_device"} ->
           {"instance", "window"}
      [] o = "swap_chain" -> {"device", "surface", "instance", "window"}
      [] OTHER -> {"device", "instance", "window"}

\* C26: on the normal exit path every object is destroyed exactly once per
\* creation (an object is created only when it does not exist and destroyed
\* only when it exists), cleanup destroys children before parents (the
\* device-level objects before the device; device, surface and debug
\* messenger before the instance; the window last), and when run() returns
\* no object is left.
C26_CleanupComplete ==
    [][/\ \A o \in ObjectNames :
            generation'[o] - destroyed'[o] = IF o \in live' THEN 1 ELSE 0
       /\ \A o \in ObjectNames :
            (generation'[o] # generation[o] /\ destroyed'[o] = destroyed[o])
                => o \notin live
       /\ \A o \in ObjectNames :
            destroyed'[o] # destroyed[o] =>
                /\ o \in live
                /\ C26_Parents(o) \subseteq live
       /\ pc' = "run_done" =>
            /\ live' = {}
            /\ \A o \in ObjectNames : destroyed'[o] = generation'[o]
      ]_vars

C26_Witness ==
    /\ snap = "full"
    /\ pc = "run_done"
    /\ recreate_count = 2
    /\ destroyed["swap_chain"] = 3
    /\ destroyed["image_available_semaphores"] = 3
    /\ destroyed["window"] = 1

\* C27: the minImageCount create_swap_chain passes to vkCreateSwapchainKHR is
\* one more than the surface's minimum, capped at the surface's maximum when
\* that maximum is not 0.
C27_ImageCountRequested ==
    pc = "sc_created" =>
        minImageCount = IF max_images = 0
                        THEN min_images + 1
                        ELSE Min(min_images + 1, max_images)

\* C28: mouse_grab_ is set by a left-button press (which saves the cursor
\* position and the camera transform) and cleared by any other left-button
\* action; events of other buttons and all other steps leave mouse_grab_,
\* mouse_grab_origin_ and mouse_grab_transform_ alone.  A camera update
\* while grabbed builds camera_transform_ from the saved transform and the
\* cursor offset only; an update while not grabbed multiplies the previous
\* camera_transform_ by the automatic pan.
C28_MouseGrab ==
    [][/\ IF mouse_event' # mouse_event /\ mouse_event'.button = "LEFT"
          THEN /\ mouse_grab_' = (mouse_event'.action = "PRESS")
               /\ IF mouse_event'.action = "PRESS"
                  THEN /\ mouse_grab_origin_' = cursor'
                       /\ mouse_grab_transform_' = camera_transform_
                  ELSE UNCHANGED <<mouse_grab_origin_, mouse_grab_transform_>>
          ELSE UNCHANGED <<mouse_grab_, mouse_grab_origin_,
                           mouse_grab_transform_>>
       /\ camera_frames' # camera_frames =>
            camera_transform_' =
              IF mouse_grab_
              THEN <<<<"tilt", cursor'[2] - mouse_grab_origin_[2]>>>>
                     \o mouse_grab_transform_
                     \o <<<<"translate", cursor'[2] - mouse_grab_origin_[2]>>,
                          <<"pan", cursor'[1] - mouse_grab_origin_[1]>>>>
              ELSE Append(camera_transform_, <<"pan", last_frame_duration>>)
       /\ (camera_frames' = camera_frames /\ pc = "camera_poll") =>
            UNCHANGED camera_transform_
      ]_vars

C28_Witness ==
    /\ mouse_grab_
    /\ camera_frames = 3
    /\ mouse_event = [seq |-> 2, button |-> "RIGHT", action |-> "PRESS"]
    /\ Len(mouse_grab_transform_) = 2
    /\ Len(camera_transform_) = 5
    /\ cursor # mouse_grab_origin_

\* C29: for every face k of a shape the three indices load_mesh stores are
\* 3k, 3k + 2 and 3k + 1, the positions of the face's vertices in the
\* shape's vertex list, and the draw count create_mesh records is the number
\* of indices of the shape.
C29_IndicesExact ==
    /\ face_index >= 1 =>
          /\ face_indices = <<3 * (face_index - 1),
                              3 * (face_index - 1) + 2,
                              3 * (face_index - 1) + 1>>
          /\ \A j \in 1 .. 3 : face_indices[j] < vertices_size
    /\ pc = "mesh_created" => index_buffer_count = indices_size

\* a device has a queue family with graphics support and one that can
\* present to the surface
C30_HasBothFamilies(d) ==
    /\ \E i \in 1 .. Len(d.families) : d.families[i].graphics
    /\ \E i \in 1 .. Len(d.families) : d.families[i].present

\* C30: pick_physical_device selects an enumerated device for which
\* is_device_suitable holds whenever at least one enumerated device is
\* suitable, and throws otherwise (no devices, or none suitable); the
\* selected device always has both a graphics and a present queue family,
\* and no .value() in create_logical_device, create_swap_chain or
\* create_command_pool meets an empty optional.
C30_SuitableDevicePicked ==
    [][/\ (pc = "pick_physical_device" /\ pc' # pc) =>
             IF \E d \in devices : is_device_suitable(d)
             THEN /\ ~thrown'
                  /\ physical_device_' \in devices
                  /\ is_device_suitable(physical_device_')
             ELSE /\ thrown'
                  /\ physical_device_' = NoDevice
       /\ physical_device_' # NoDevice =>
             C30_HasBothFamilies(physical_device_')
       /\ ~bad_optional_access'
       /\ pc' \in {"create_swap_chain", "create_command_pool",
                   "command_pool_created"} =>
             /\ queue_indices'.graphics_family # NoFamily
             /\ pc' # "command_pool_created" =>
                   queue_indices'.present_family # NoFamily]_vars

\* a device with two queue families, the first with graphics support only
\* and the second the one that can present, was picked and every .value()
\* of create_logical_device, create_swap_chain and create_command_pool
\* returned
C30_Witness ==
    /\ pc = "command_pool_created"
    /\ ~thrown
    /\ is_device_suitable(physical_device_)
    /\ Len(physical_device_.families) = 2
    /\ ~physical_device_.families[1].present
    /\ queue_indices.graphics_family = 0
    /\ queue_indices.present_family = 1

====
